---- MODULE Spec2Model ----
(***************************************************************************)
(* Charlie OPORD Wizard: the enrichment adapter (opord/ai_helper.py), the  *)
(* document assembler (opord/generator.py) and the /generate route         *)
(* (app.py) as state machines.                                             *)
(*                                                                         *)
(* Strings.  A Python str is a sequence of pieces.  A piece is either one  *)
(* character typed by a user or returned by a collaborator ("a", "b", " ", *)
(* "\n") or one literal of the source, kept whole ("1. SITUATION",         *)
(* "Not reported.").  Concatenation is \o, the empty string is << >>, and  *)
(* no literal of the source contains a line break, so the lines of a text  *)
(* are the runs between "\n" pieces.                                       *)
(***************************************************************************)
EXTENDS Integers, Sequences, FiniteSets, TLC

VARIABLES
    data,               \* generator: the OPORDData instance held by OPORDGenerator
    SUBORDINATE_UNITS,  \* generator: the module-level catalog list
    text_out,           \* generator: what the last generate_text call returned
    dict_out,           \* generator: what the last generate_dict call returned
    ncalls,             \* generator: how many method calls were made
    built,              \* generator: the instance as OPORDGenerator was given it
    env,                \* process environment: client library, API key, model
    collab,             \* the text-completion service: which call of a batch fails
    form_data,          \* enrichment: the mapping the caller passes and still holds
    model_arg,          \* enrichment: the model argument of the call
    outcome,            \* enrichment: what the last ai_helper call did
    request,            \* app: the form of the request handled last
    session,            \* app: session["opord_dict"]
    response,           \* app: the response to the request handled last
    gcloud,             \* slides: client library, token file, credentials file,
                        \*         template id, and how the services answer
    opord_dict,         \* slides: the mapping a caller passes to the adapter
    exported,           \* slides: what the last slides_helper call did
    token_json,         \* slides: token.json as concurrent calls see it: its
                        \*         content, and the writes made to it, in order
    threads             \* slides: the concurrent _get_credentials calls: the
                        \*         position and the credentials of each

genVars == <<data, SUBORDINATE_UNITS, text_out, dict_out, ncalls, built>>
envVars == <<env, collab>>
enrichVars == <<form_data, model_arg, outcome>>
appVars == <<request, session, response>>
raceVars == <<token_json, threads>>
slideVars == <<gcloud, opord_dict, exported, raceVars>>

\* an Optional value: None, or Some(v) holding v
None == << >>
Some(v) == <<v>>
Val(o) == o[1]

(***************************************************************************)
(* str helpers                                                             *)
(***************************************************************************)
Whitespace == {" ", "\n"}

RECURSIVE lstrip(_)
lstrip(s) ==
    IF s # << >> /\ Head(s) \in Whitespace THEN lstrip(Tail(s)) ELSE s

RECURSIVE rstrip(_)
rstrip(s) ==
    IF s # << >> /\ s[Len(s)] \in Whitespace
    THEN rstrip(SubSeq(s, 1, Len(s) - 1))
    ELSE s

\* str.strip()
strip(s) == rstrip(lstrip(s))

Range(f) == {f[i] : i \in DOMAIN f}

\* Python truthiness of a str, and `a or b` on strs
Truthy(s) == s # << >>
Or(a, b) == IF Truthy(a) THEN a ELSE b

\* "\n".join(parts)
RECURSIVE join(_)
join(parts) ==
    IF parts = << >> THEN << >>
    ELSE IF Len(parts) = 1 THEN parts[1]
    ELSE parts[1] \o <<"\n">> \o join(Tail(parts))

\* str.split("\n"): the lines of a text, computed by halving
RECURSIVE Lines(_)
Lines(s) ==
    IF Len(s) = 0 THEN << << >> >>
    ELSE IF Len(s) = 1
    THEN (IF s[1] = "\n" THEN << << >>, << >> >> ELSE <<s>>)
    ELSE LET m == Len(s) \div 2
             a == Lines(SubSeq(s, 1, m))
             b == Lines(SubSeq(s, m + 1, Len(s)))
         IN SubSeq(a, 1, Len(a) - 1) \o <<a[Len(a)] \o b[1]>> \o Tail(b)

(***************************************************************************)
(* opord/generator.py: unit constants                                      *)
(***************************************************************************)
UNIT_NAME == <<"Charlie Company, 1st Battalion, 7th Cavalry Gaming Regiment">>
UNIT_SHORT == <<"C/1-7 CAV">>
UNIT_TYPE == <<"Airborne / Air Assault (PIR model)">>
HIGHER_HQ == <<"1st Battalion, 7th Cavalry Gaming Regiment (1-7 CAV)">>

Catalog == <<
    <<"1st Platoon (Rifle)">>,
    <<"2nd Platoon (Rifle)">>,
    <<"3rd Platoon (Rifle)">>,
    <<"Weapons Platoon">>,
    <<"Headquarters & Support Element">> >>

DEFAULT_CLASSIFICATION == <<"UNCLASSIFIED // TRAINING USE ONLY">>
DEFAULT_TIME_ZONE == <<"ZULU">>

RuleWidth == 70
Rule == [i \in 1..RuleWidth |-> "="]

(***************************************************************************)
(* opord/generator.py: the data classes.  A dict is a sequence of          *)
(* <<key, value>> pairs with distinct keys, in insertion order.            *)
(***************************************************************************)
EnemyForces(composition, disposition, strength, recent_activity, capabilities, most_likely_coa, most_dangerous_coa) ==
    [composition |-> composition, disposition |-> disposition,
     strength |-> strength, recent_activity |-> recent_activity,
     capabilities |-> capabilities, most_likely_coa |-> most_likely_coa,
     most_dangerous_coa |-> most_dangerous_coa]

FriendlyForces(higher_hq_mission, adjacent_units, supporting_units) ==
    [higher_hq_mission |-> higher_hq_mission,
     adjacent_units |-> adjacent_units,
     supporting_units |-> supporting_units]

Situation(enemy, friendly, attachments_detachments, civil_considerations) ==
    [enemy |-> enemy, friendly |-> friendly,
     attachments_detachments |-> attachments_detachments,
     civil_considerations |-> civil_considerations]

Execution(commanders_intent, higher_commanders_intent, concept_of_operations, scheme_of_maneuver, scheme_of_fires, tasks_to_subordinates, coordinating_instructions, rules_of_engagement) ==
    [commanders_intent |-> commanders_intent,
     higher_commanders_intent |-> higher_commanders_intent,
     concept_of_operations |-> concept_of_operations,
     scheme_of_maneuver |-> scheme_of_maneuver,
     scheme_of_fires |-> scheme_of_fires,
     tasks_to_subordinates |-> tasks_to_subordinates,
     coordinating_instructions |-> coordinating_instructions,
     rules_of_engagement |-> rules_of_engagement]

Sustainment(logistics, personnel, medical) ==
    [logistics |-> logistics, personnel |-> personnel, medical |-> medical]

CommandAndSignal(command, succession_of_command, signal, frequencies, challenge_and_password) ==
    [command |-> command, succession_of_command |-> succession_of_command,
     signal |-> signal, frequencies |-> frequencies,
     challenge_and_password |-> challenge_and_password]

\* OPORDData(): every field at its dataclass default
OPORDData ==
    [operation_name |-> << >>,
     classification |-> DEFAULT_CLASSIFICATION,
     dtg |-> << >>,
     reference_maps |-> << >>,
     time_zone |-> DEFAULT_TIME_ZONE,
     insert_method |-> << >>,
     dz_lz |-> << >>,
     situation |-> Situation(
         EnemyForces(<< >>, << >>, << >>, << >>, << >>, << >>, << >>),
         FriendlyForces(<< >>, << >>, << >>), << >>, << >>),
     mission |-> << >>,
     execution |-> Execution(<< >>, << >>, << >>, << >>, << >>, << >>,
                             << >>, << >>),
     sustainment |-> Sustainment(<< >>, << >>, << >>),
     command_and_signal |-> CommandAndSignal(<< >>, << >>, << >>, << >>,
                                             << >>)]

(***************************************************************************)
(* opord/generator.py: OPORDGenerator, rendering to text                   *)
(***************************************************************************)
L(s) == <<s>>

_header(d) ==
    join(<<
        d.classification,
        << >>,
        L("OPERATION ORDER ") \o Or(d.operation_name, L("TBD")) \o L("-XX"),
        L("(") \o Or(d.dtg, L("DTG TBD")) \o L(" ") \o d.time_zone \o L(")"),
        << >>,
        L("Issuing HQ: ") \o UNIT_NAME,
        L("Reference Map(s): ") \o Or(d.reference_maps, L("N/A")),
        << >>,
        Rule >>)

_paragraph_1(d) ==
    LET s == d.situation
        e == s.enemy
        f == s.friendly
    IN join(<<
        L("1. SITUATION"),
        << >>,
        L("  a. Enemy Forces."),
        L("     Composition:        ") \o Or(e.composition, L("Not reported.")),
        L("     Disposition:        ") \o Or(e.disposition, L("Not reported.")),
        L("     Strength:           ") \o Or(e.strength, L("Not reported.")),
        L("     Recent Activity:    ") \o Or(e.recent_activity, L("Not reported.")),
        L("     Capabilities:       ") \o Or(e.capabilities, L("Not reported.")),
        L("     Most Likely COA:    ") \o Or(e.most_likely_coa, L("Not reported.")),
        L("     Most Dangerous COA: ") \o Or(e.most_dangerous_coa, L("Not reported.")),
        << >>,
        L("  b. Friendly Forces."),
        L("     Higher HQ Mission:  ") \o Or(f.higher_hq_mission, L("See higher OPORD.")),
        L("     Adjacent Units:     ") \o Or(f.adjacent_units, L("None identified.")),
        L("     Supporting Units:   ") \o Or(f.supporting_units, L("None identified.")),
        << >>,
        L("  c. Attachments and Detachments."),
        L("     ") \o Or(s.attachments_detachments, L("None.")),
        << >>,
        L("  d. Civil Considerations."),
        L("     ") \o Or(s.civil_considerations, L("None assessed at this time.")) >>)

\* a paragraph 2 that always prints the Insert Method line, defaulted
Paragraph2DefaultsInsert(d) ==
    join(<<
            L("2. MISSION"),
            << >>,
            L("  ") \o Or(d.mission, L("Mission not specified.")),
            << >>,
            L("  Insert Method: ") \o Or(d.insert_method, L("N/A")) >>
        \o (IF Truthy(d.dz_lz)
            THEN << L("  DZ/LZ: ") \o d.dz_lz >>
            ELSE << >>))

_paragraph_2(d) ==
    join(<<
            L("2. MISSION"),
            << >>,
            L("  ") \o Or(d.mission, L("Mission not specified.")) >>
        \o (IF Truthy(d.insert_method)
            THEN << << >>, L("  Insert Method: ") \o d.insert_method >>
            ELSE << >>)
        \o (IF Truthy(d.dz_lz)
            THEN << L("  DZ/LZ: ") \o d.dz_lz >>
            ELSE << >>))

\* lines of 3f that follow the catalog's order, not the dict's
TaskLinesCatalogOrder(tasks, units) ==
    LET given == {tasks[i][1] : i \in DOMAIN tasks}
        listed == SelectSeq(units, LAMBDA u : u \in given)
        others == SelectSeq(tasks, LAMBDA e : e[1] \notin Range(units))
        taskOf(u) == (CHOOSE e \in Range(tasks) : e[1] = u)[2]
    IN IF tasks # << >>
       THEN [i \in 1..Len(listed) |->
               L("     (") \o listed[i] \o L("): ") \o taskOf(listed[i])]
            \o [i \in 1..Len(others) |->
               L("     (") \o others[i][1] \o L("): ") \o others[i][2]]
       ELSE [i \in 1..Len(units) |->
               L("     (") \o units[i] \o L("): Tasks TBD.")]

\* the lines of sub-paragraph 3f
TaskLines(tasks, units) ==
    IF tasks # << >>
    THEN [i \in 1..Len(tasks) |->
            L("     (") \o tasks[i][1] \o L("): ") \o tasks[i][2]]
    ELSE [i \in 1..Len(units) |->
            L("     (") \o units[i] \o L("): Tasks TBD.")]

_paragraph_3(d, units) ==
    LET ex == d.execution
    IN join(<<
            L("3. EXECUTION"),
            << >>,
            L("  a. Commander's Intent."),
            L("     Purpose:    ") \o Or(ex.commanders_intent, L("Not specified.")),
            << >>,
            L("  b. Higher Commander's Intent."),
            L("     ") \o Or(ex.higher_commanders_intent, L("See higher OPORD.")),
            << >>,
            L("  c. Concept of Operations."),
            L("     ") \o Or(ex.concept_of_operations, L("Not specified.")),
            << >>,
            L("  d. Scheme of Maneuver."),
            L("     ") \o Or(ex.scheme_of_maneuver, L("Not specified.")),
            << >>,
            L("  e. Scheme of Fires."),
            L("     ") \o Or(ex.scheme_of_fires, L("Not specified.")),
            << >>,
            L("  f. Tasks to Subordinate Units.") >>
        \o TaskLines(ex.tasks_to_subordinates, units)
        \o <<
            << >>,
            L("  g. Coordinating Instructions."),
            L("     ") \o Or(ex.coordinating_instructions, L("As required.")),
            << >>,
            L("  h. Rules of Engagement."),
            L("     ") \o Or(ex.rules_of_engagement,
                             L("Standard ROE apply. PID required prior to engagement.")) >>)

\* a paragraph 4 that prints the raw medical field, without its fallback
Paragraph4RawMedical(d) ==
    LET su == d.sustainment
    IN join(<<
        L("4. SUSTAINMENT"),
        << >>,
        L("  a. Logistics."),
        L("     ") \o Or(su.logistics, L("Standard combat load. Resupply via higher HQ.")),
        << >>,
        L("  b. Personnel."),
        L("     ") \o Or(su.personnel, L("See unit manning roster.")),
        << >>,
        L("  c. Medical."),
        L("     ") \o su.medical >>)

_paragraph_4(d) ==
    LET su == d.sustainment
    IN join(<<
        L("4. SUSTAINMENT"),
        << >>,
        L("  a. Logistics."),
        L("     ") \o Or(su.logistics, L("Standard combat load. Resupply via higher HQ.")),
        << >>,
        L("  b. Personnel."),
        L("     ") \o Or(su.personnel, L("See unit manning roster.")),
        << >>,
        L("  c. Medical."),
        L("     ") \o Or(su.medical, L("Casevac IAW unit SOP. Nearest MTF: TBD.")) >>)

_paragraph_5(d) ==
    LET cs == d.command_and_signal
    IN join(<<
        L("5. COMMAND AND SIGNAL"),
        << >>,
        L("  a. Command."),
        L("     Commander:               ") \o UNIT_SHORT \o L(" CDR"),
        L("     Succession of Command:   ")
            \o Or(cs.succession_of_command, L("1PSG, then 1PLT LDR, then 2PLT LDR")),
        L("     CP Location:             ") \o Or(cs.command, L("TBD")),
        << >>,
        L("  b. Signal."),
        L("     ") \o Or(cs.signal, L("PACE plan IAW unit SOP.")),
        L("     Frequencies:             ") \o Or(cs.frequencies, L("See signal annex.")),
        L("     Challenge / Password:    ") \o Or(cs.challenge_and_password, L("TBD")) >>)

\* a footer that repeats the default classification, not the instance's
FooterDefaultClassification(d) ==
    join(<<
        << >>,
        Rule,
        << >>,
        L("ACKNOWLEDGE"),
        << >>,
        L("  [Commander, ") \o UNIT_SHORT \o L("]"),
        << >>,
        DEFAULT_CLASSIFICATION >>)

_footer(d) ==
    join(<<
        << >>,
        Rule,
        << >>,
        L("ACKNOWLEDGE"),
        << >>,
        L("  [Commander, ") \o UNIT_SHORT \o L("]"),
        << >>,
        d.classification >>)

\* OPORDGenerator(d).generate_text(), with the catalog list as it is now
generate_text(d, units) ==
    join(<<
        _header(d),
        << >>,
        _paragraph_1(d),
        << >>,
        _paragraph_2(d),
        << >>,
        _paragraph_3(d, units),
        << >>,
        _paragraph_4(d),
        << >>,
        _paragraph_5(d),
        _footer(d) >>)

(***************************************************************************)
(* opord/generator.py: OPORDGenerator, rendering to a mapping              *)
(***************************************************************************)
generate_dict(d, units) ==
    [unit |-> UNIT_NAME,
     unit_short |-> UNIT_SHORT,
     unit_type |-> UNIT_TYPE,
     higher_hq |-> HIGHER_HQ,
     classification |-> d.classification,
     operation_name |-> d.operation_name,
     dtg |-> d.dtg,
     time_zone |-> d.time_zone,
     reference_maps |-> d.reference_maps,
     insert_method |-> d.insert_method,
     dz_lz |-> d.dz_lz,
     situation |-> [
         enemy |-> [
             composition |-> d.situation.enemy.composition,
             disposition |-> d.situation.enemy.disposition,
             strength |-> d.situation.enemy.strength,
             recent_activity |-> d.situation.enemy.recent_activity,
             capabilities |-> d.situation.enemy.capabilities,
             most_likely_coa |-> d.situation.enemy.most_likely_coa,
             most_dangerous_coa |-> d.situation.enemy.most_dangerous_coa],
         friendly |-> [
             higher_hq_mission |-> d.situation.friendly.higher_hq_mission,
             adjacent_units |-> d.situation.friendly.adjacent_units,
             supporting_units |-> d.situation.friendly.supporting_units],
         attachments_detachments |-> d.situation.attachments_detachments,
         civil_considerations |-> d.situation.civil_considerations],
     mission |-> d.mission,
     execution |-> [
         commanders_intent |-> d.execution.commanders_intent,
         higher_commanders_intent |-> d.execution.higher_commanders_intent,
         concept_of_operations |-> d.execution.concept_of_operations,
         scheme_of_maneuver |-> d.execution.scheme_of_maneuver,
         scheme_of_fires |-> d.execution.scheme_of_fires,
         tasks_to_subordinates |-> d.execution.tasks_to_subordinates,
         coordinating_instructions |-> d.execution.coordinating_instructions,
         rules_of_engagement |-> d.execution.rules_of_engagement],
     sustainment |-> [
         logistics |-> d.sustainment.logistics,
         personnel |-> d.sustainment.personnel,
         medical |-> d.sustainment.medical],
     command_and_signal |-> [
         command |-> d.command_and_signal.command,
         succession_of_command |-> d.command_and_signal.succession_of_command,
         signal |-> d.command_and_signal.signal,
         frequencies |-> d.command_and_signal.frequencies,
         challenge_and_password |-> d.command_and_signal.challenge_and_password],
     subordinate_units |-> units]

\* a generate_text that stores the catalog fallback of 3f in the instance
TextCallFillsTasks(d, units) ==
    [ret |-> generate_text(d, units),
     data |-> IF d.execution.tasks_to_subordinates # << >> THEN d
              ELSE [d EXCEPT !.execution.tasks_to_subordinates =
                        [i \in 1..Len(units) |-> <<units[i], L("Tasks TBD.")>>]]]

\* a generate_text call: what it returns and what it leaves in self.data
TextCall(d, units) == [ret |-> generate_text(d, units), data |-> d]

\* a generate_dict that applies the text's fallback to an empty mission
DictCallWithFallback(d, units) ==
    [ret |-> [generate_dict(d, units) EXCEPT
                 !.mission = Or(@, L("Mission not specified."))],
     data |-> d]

\* a generate_dict call: what it returns and what it leaves in self.data
DictCall(d, units) == [ret |-> generate_dict(d, units), data |-> d]

(***************************************************************************)
(* Mappings.  A flat field mapping (a dict of str to str) is a function    *)
(* from the keys present to their values.                                  *)
(***************************************************************************)
Has(m, k) == k \in DOMAIN m

\* dict.get(k, default)
Get(m, k, default) == IF Has(m, k) THEN m[k] ELSE default

\* {}
EmptyForm == [k \in {} |-> << >>]

\* m.pop(k, None)
Remove(m, k) == [x \in DOMAIN m \ {k} |-> m[x]]

\* m[k] = v
Put(m, k, v) == [x \in DOMAIN m \cup {k} |-> IF x = k THEN v ELSE m[x]]

\* `not m.get(k)`: the key is absent or its value is the empty string
Blank(m, k) == ~Has(m, k) \/ ~Truthy(m[k])

(***************************************************************************)
(* opord/ai_helper.py                                                      *)
(***************************************************************************)
SYSTEM_PROMPT == <<"_SYSTEM_PROMPT">>
DEFAULT_MODEL == <<"gpt-4o">>
TEMPERATURE == "0.4"
MAX_TOKENS == 300

\* a client that reads no credential: every process has one
GetClientAlways(e) == TRUE

\* get_client() is not None
get_client(e) ==
    IF ~e.openai_available THEN FALSE
    ELSE LET api_key == IF e.OPENAI_API_KEY = None THEN << >>
                        ELSE Val(e.OPENAI_API_KEY)
         IN IF ~Truthy(api_key) \/ api_key[1] = "your_" THEN FALSE
            ELSE TRUE

\* the request generate_section sends
CompletionRequest(section_name, user_notes, model, e) ==
    [model |-> IF model # None /\ Truthy(Val(model)) THEN Val(model)
               ELSE IF e.OPENAI_MODEL # None THEN Val(e.OPENAI_MODEL)
               ELSE DEFAULT_MODEL,
     messages |-> <<
        [role |-> "system", content |-> SYSTEM_PROMPT],
        [role |-> "user", content |->
            L("Generate the '") \o section_name
            \o L("' section of an OPORD for ") \o UNIT_NAME \o L(". ")
            \o L("Use the following operational notes as context:")
            \o <<"\n", "\n">> \o user_notes \o <<"\n", "\n">>
            \o L("Write only the content of that section (no headings). ")
            \o L("Keep it under 150 words.")] >>,
     temperature |-> TEMPERATURE,
     max_tokens |-> MAX_TOKENS]

\* the section a request asks for
SectionOf(req) == <<req.messages[2].content[2]>>

\* client.chat.completions.create for the n-th request of a batch: the
\* service raises, or answers with a text of its own for the section
\* (padded with white space), or with white space only
Create(req, n, c) ==
    IF c.fail_at = n THEN [raised |-> TRUE, content |-> << >>]
    ELSE IF c.blank_at = n THEN [raised |-> FALSE, content |-> <<" ", "\n">>]
    ELSE [raised |-> FALSE,
          content |-> <<"\n">> \o L("AI:") \o SectionOf(req) \o <<" ">>]

\* a generate_section that catches the service's exception and returns ""
GenerateSectionCatches(section_name, user_notes, model, e, c, n) ==
    IF ~get_client(e)
    THEN [raised |-> FALSE, ret |-> << >>, requests |-> << >>]
    ELSE LET req == CompletionRequest(section_name, user_notes, model, e)
             reply == Create(req, n, c)
         IN [raised |-> FALSE,
             ret |-> strip(reply.content),
             requests |-> <<req>>]

\* generate_section as the n-th call of a batch: raised, the text
\* returned, and the requests it issued
generate_section(section_name, user_notes, model, e, c, n) ==
    IF ~get_client(e)
    THEN [raised |-> FALSE, ret |-> << >>, requests |-> << >>]
    ELSE LET req == CompletionRequest(section_name, user_notes, model, e)
             reply == Create(req, n, c)
         IN [raised |-> reply.raised,
             ret |-> strip(reply.content),
             requests |-> <<req>>]

\* auto_fill_fields
auto_fill_fields == <<
    <<"enemy_capabilities", <<"Enemy Capabilities">>>>,
    <<"enemy_most_likely_coa", <<"Enemy Most Likely Course of Action">>>>,
    <<"enemy_most_dangerous_coa", <<"Enemy Most Dangerous Course of Action">>>>,
    <<"commanders_intent", <<"Commander's Intent">>>>,
    <<"concept_of_operations", <<"Concept of Operations">>>>,
    <<"scheme_of_maneuver", <<"Scheme of Maneuver">>>>,
    <<"scheme_of_fires", <<"Scheme of Fires">>>>,
    <<"coordinating_instructions", <<"Coordinating Instructions">>>>,
    <<"sustainment_logistics", <<"Logistics paragraph">>>>,
    <<"sustainment_medical", <<"Medical paragraph">>>>,
    <<"signal", <<"Command and Signal paragraph">>>> >>

\* op_summary
op_summary(fd) ==
    L("Operation: ") \o Get(fd, "operation_name", L("TBD")) \o L(". ")
    \o L("Mission: ") \o Get(fd, "mission", L("TBD")) \o L(". ")
    \o L("Insert method: ") \o Get(fd, "insert_method", L("TBD")) \o L(". ")
    \o L("DZ/LZ: ") \o Get(fd, "dz_lz", L("TBD")) \o L(". ")
    \o L("Enemy: ") \o Get(fd, "enemy_composition", L("unknown")) \o L(".")

\* a fill test that is true of every target
NeedsFillAlways(result, key) == TRUE

\* a fill test that is true of an absent key only
NeedsFillAbsentOnly(result, key) == ~Has(result, key)

\* the fill test of the loop
NeedsFill(result, key) == Blank(result, key)

\* the loop over auto_fill_fields from entry i on: an exception of
\* generate_section leaves the loop at once, with result as filled so far
RECURSIVE FillFrom(_, _, _, _, _, _, _)
FillFrom(result, i, summary, model, e, c, requests) ==
    IF i > Len(auto_fill_fields)
    THEN [raised |-> FALSE, result |-> result, requests |-> requests]
    ELSE LET key == auto_fill_fields[i][1]
             label == auto_fill_fields[i][2]
         IN IF NeedsFill(result, key)
            THEN LET g == generate_section(label, summary, model, e, c,
                                           Len(requests) + 1)
                 IN IF g.raised
                    THEN [raised |-> TRUE, result |-> result,
                          requests |-> requests \o g.requests]
                    ELSE FillFrom(Put(result, key, g.ret), i + 1, summary,
                                  model, e, c, requests \o g.requests)
            ELSE FillFrom(result, i + 1, summary, model, e, c, requests)

\* a generate_full_opord that fills the caller's dict in place
GenerateFullOpordInPlace(fd, model, e, c) ==
    IF ~get_client(e)
    THEN [raised |-> FALSE, ret |-> fd, form_data |-> fd, requests |-> << >>]
    ELSE LET r == FillFrom(fd, 1, op_summary(fd), model, e, c, << >>)
         IN [raised |-> r.raised,
             ret |-> IF r.raised THEN << >> ELSE r.result,
             form_data |-> r.result,
             requests |-> r.requests]

\* generate_full_opord(fd, model): whether it raised, the mapping it
\* returned, the caller's mapping after the call, the requests it issued
generate_full_opord(fd, model, e, c) ==
    IF ~get_client(e)
    THEN [raised |-> FALSE, ret |-> fd, form_data |-> fd, requests |-> << >>]
    ELSE LET r == FillFrom(fd, 1, op_summary(fd), model, e, c, << >>)
         IN [raised |-> r.raised,
             ret |-> IF r.raised THEN << >> ELSE r.result,
             form_data |-> fd,
             requests |-> r.requests]


(***************************************************************************)
(* app.py                                                                  *)
(***************************************************************************)
\* the unit list of _form_to_opord_data, each with its form key
\* f"task_{unit.split()[0].lower()}"
TaskUnits == <<
    <<<<"1st Platoon (Rifle)">>, "task_1st">>,
    <<<<"2nd Platoon (Rifle)">>, "task_2nd">>,
    <<<<"3rd Platoon (Rifle)">>, "task_3rd">>,
    <<<<"Weapons Platoon">>, "task_weapons">>,
    <<<<"Headquarters & Support Element">>, "task_headquarters">> >>

\* a tasks loop that enters every unit the form has a key for, blank or not
RECURSIVE TasksFromKeepsBlank(_, _)
TasksFromKeepsBlank(form, i) ==
    IF i > Len(TaskUnits) THEN << >>
    ELSE (IF Has(form, TaskUnits[i][2])
          THEN << <<TaskUnits[i][1], strip(form[TaskUnits[i][2]])>> >>
          ELSE << >>)
         \o TasksFromKeepsBlank(form, i + 1)

\* the tasks dict built by the loop: a unit is entered when its value,
\* stripped, is not empty
RECURSIVE TasksFrom(_, _)
TasksFrom(form, i) ==
    IF i > Len(TaskUnits) THEN << >>
    ELSE LET val == strip(Get(form, TaskUnits[i][2], << >>))
         IN (IF Truthy(val) THEN << <<TaskUnits[i][1], val>> >> ELSE << >>)
            \o TasksFrom(form, i + 1)

_form_to_opord_data(form) ==
    LET field(k) == strip(Get(form, k, << >>))
    IN [operation_name |-> field("operation_name"),
        classification |-> strip(Get(form, "classification", DEFAULT_CLASSIFICATION)),
        dtg |-> field("dtg"),
        reference_maps |-> field("reference_maps"),
        time_zone |-> strip(Get(form, "time_zone", DEFAULT_TIME_ZONE)),
        insert_method |-> field("insert_method"),
        dz_lz |-> field("dz_lz"),
        situation |-> Situation(
            EnemyForces(
                field("enemy_composition"),
                field("enemy_disposition"),
                field("enemy_strength"),
                field("enemy_recent_activity"),
                field("enemy_capabilities"),
                field("enemy_most_likely_coa"),
                field("enemy_most_dangerous_coa")),
            FriendlyForces(
                field("friendly_higher_hq_mission"),
                field("friendly_adjacent_units"),
                field("friendly_supporting_units")),
            field("attachments_detachments"),
            field("civil_considerations")),
        mission |-> field("mission"),
        execution |-> Execution(
            field("commanders_intent"),
            << >>,
            field("concept_of_operations"),
            field("scheme_of_maneuver"),
            field("scheme_of_fires"),
            TasksFrom(form, 1),
            field("coordinating_instructions"),
            field("rules_of_engagement")),
        sustainment |-> Sustainment(
            field("sustainment_logistics"),
            field("sustainment_personnel"),
            field("sustainment_medical")),
        command_and_signal |-> CommandAndSignal(
            field("command_cp"),
            field("succession_of_command"),
            field("signal"),
            field("frequencies"),
            field("challenge_and_password"))]

NoResponse ==
    [route |-> "none", status |-> 0, template |-> "none", opord_text |-> None,
     opord |-> None, flashed |-> << >>]

\* what a /generate handler leaves behind: the response, the session's
\* opord_dict, the enrichment call it made, the mapping the document was
\* built from, and the generator's instance and results
Handled(resp, sess, call, flat, d, t, m) ==
    [response |-> resp, session |-> sess, call |-> call, flat |-> flat,
     data |-> d, text |-> t, dict |-> m]

\* the record of a generate_full_opord call g on the mapping fd
Called(g, fd) ==
    [fn |-> "generate_full_opord", raised |-> g.raised, input |-> fd,
     ret |-> g.ret, requests |-> g.requests]

\* the enrichment step of /generate, skipped
NotCalled ==
    [fn |-> "none", raised |-> FALSE, input |-> EmptyForm, ret |-> << >>,
     requests |-> << >>]

\* the rest of /generate, from the mapping the document is built from
Render(flat, call, flashed, units) ==
    LET opord_data == _form_to_opord_data(flat)
        t == TextCall(opord_data, units)
        m == DictCall(t.data, units)
    IN Handled([route |-> "/generate", status |-> 200,
                template |-> "result.html", opord_text |-> Some(t.ret),
                opord |-> Some(m.ret), flashed |-> flashed],
               Some(m.ret), call, flat, m.data, Some(t.ret), Some(m.ret))

\* a /generate without the try around the enrichment: the exception
\* reaches the framework, which answers with its error page
GenerateNoCatch(form, sess, e, c, units, d) ==
    LET use_ai == Has(form, "use_ai") /\ form["use_ai"] = <<"on">>
        flat == Remove(form, "use_ai")
        g == generate_full_opord(flat, None, e, c)
    IN IF ~use_ai THEN Render(flat, NotCalled, << >>, units)
       ELSE IF g.raised
       THEN Handled([route |-> "/generate", status |-> 500,
                     template |-> "none", opord_text |-> None,
                     opord |-> None, flashed |-> << >>],
                    sess, Called(g, flat), g.form_data, d, None, None)
       ELSE Render(g.ret, Called(g, flat), << >>, units)

\* generate(): the handler of POST /generate on the form posted, with the
\* session's opord_dict, the environment, the service, the catalog and the
\* instance of the previous request
generate(form, sess, e, c, units, d) ==
    LET use_ai == Has(form, "use_ai") /\ form["use_ai"] = <<"on">>
        flat == Remove(form, "use_ai")
        g == generate_full_opord(flat, None, e, c)
    IN IF ~use_ai THEN Render(flat, NotCalled, << >>, units)
       ELSE IF g.raised
       THEN Render(g.form_data, Called(g, flat),
                   <<[category |-> "warning",
                      message |-> L("AI enrichment failed: ") \o L("exc")
                                  \o L(". Proceeding without AI.")]>>,
                   units)
       ELSE Render(g.ret, Called(g, flat), << >>, units)


(***************************************************************************)
(* opord/slides_helper.py.  A nested mapping (a dict) is a function from   *)
(* the keys present to their values; its tasks_to_subordinates is a        *)
(* sequence of <<unit, task>> pairs in insertion order.                    *)
(***************************************************************************)
\* the value None where a str is expected, apart from every str
PyNone == <<"None">>

\* `value or default` where value is a str or None
OrElse(value, default) ==
    IF value = << >> \/ value = PyNone THEN default ELSE value

\* len(str): the characters of a str, piece by piece
RECURSIVE CharLen(_)
CharLen(str) ==
    IF str = << >> THEN 0
    ELSE IF Len(str) = 1 THEN Len(str[1])
    ELSE LET m == Len(str) \div 2
         IN CharLen(SubSeq(str, 1, m)) + CharLen(SubSeq(str, m + 1, Len(str)))

\* a slice that is no slice
Uncut(str, n) == str

\* str[:n]: the first n characters of a str; the piece the cut falls in
\* is cut
RECURSIVE Cut(_, _)
Cut(str, n) ==
    IF CharLen(str) <= n THEN str
    ELSE IF n = 0 THEN << >>
    ELSE IF Len(str) = 1 THEN <<SubSeq(str[1], 1, n)>>
    ELSE LET m == Len(str) \div 2
             left == SubSeq(str, 1, m)
             l == CharLen(left)
         IN IF l >= n THEN Cut(left, n)
            ELSE left \o Cut(SubSeq(str, m + 1, Len(str)), n - l)

BODY_LIMIT == 3000

\* a _get_credentials that skips the test of the credentials file and
\* always runs the authorization flow
GetCredentialsAlwaysFlow(g) ==
    IF ~g.google_available
    THEN [raised |-> FALSE, ret |-> None, token |-> g.token, steps |-> << >>]
    ELSE [raised |-> FALSE, ret |-> Some("creds"), token |-> "valid",
          steps |-> <<"flow">>]

\* _get_credentials(credentials_file) in the environment g: whether it
\* raised, what it returned (None, or Some credentials), the token file it
\* leaves, and the authorization steps it took.  g.token is the state of
\* token.json: "absent", "valid", "expired" (with a refresh token),
\* "invalid" (not valid and not refreshable) or "malformed".
_get_credentials(g) ==
    IF ~g.google_available
    THEN [raised |-> FALSE, ret |-> None, token |-> g.token, steps |-> << >>]
    ELSE IF g.token = "malformed"
    THEN [raised |-> TRUE, ret |-> None, token |-> g.token, steps |-> << >>]
    ELSE IF g.token = "valid"
    THEN [raised |-> FALSE, ret |-> Some("creds"), token |-> g.token,
          steps |-> << >>]
    ELSE IF g.token = "expired"
    THEN (IF g.auth_fails
          THEN [raised |-> TRUE, ret |-> None, token |-> g.token,
                steps |-> <<"refresh">>]
          ELSE [raised |-> FALSE, ret |-> Some("creds"), token |-> "valid",
                steps |-> <<"refresh">>])
    ELSE IF ~g.credentials_file_exists
    THEN [raised |-> FALSE, ret |-> None, token |-> g.token, steps |-> << >>]
    ELSE IF g.auth_fails
    THEN [raised |-> TRUE, ret |-> None, token |-> g.token,
          steps |-> <<"flow">>]
    ELSE [raised |-> FALSE, ret |-> Some("creds"), token |-> "valid",
          steps |-> <<"flow">>]

\* _get_credentials step by step, as concurrent calls run it.  The content
\* of token.json is a sequence of blocks, each block naming the call that
\* wrote it (0: the credential cached before the calls); the JSON of a
\* credential is a run of blocks of one writer.
Token(writer, n) == [i \in 1..n |-> writer]

\* what loading token.json gives (lines 66-67): "none" when the file does
\* not exist, "raised" when its content is no JSON of a credential (it is
\* empty, or blocks of two writers), else the state of the credential:
\* that of g.token for the cached one, "valid" for a refreshed one
Loaded(file, g) ==
    IF file = None THEN "none"
    ELSE IF Val(file) = << >> \/ \E i, j \in DOMAIN Val(file) : Val(file)[i] # Val(file)[j]
    THEN "raised"
    ELSE IF Val(file)[1] = 0 THEN g.token
    ELSE "valid"

\* a branch after the load that refreshes whatever was loaded
AfterLoadAlwaysRefresh(state) ==
    IF state = "raised" THEN "raised" ELSE "refresh"

\* the branch taken after the load (lines 69-73): a valid credential is
\* returned, an expired one refreshed, and without a usable one the
\* authorization flow is run
AfterLoad(state) ==
    CASE state = "valid" -> "return"
      [] state = "expired" -> "refresh"
      [] state = "raised" -> "raised"
      [] OTHER -> "flow"

\* file.write(content) at offset 0 of a file that holds old: what is
\* beyond the content written stays
Overlay(content, old) == content \o SubSeq(old, Len(content) + 1, Len(old))

\* a request builder that passes the value as it is
MakeTextReplaceRequestRaw(placeholder, value) ==
    [replaceAllText |->
        [containsText |-> [text |-> L("{{") \o placeholder \o L("}}"),
                           matchCase |-> TRUE],
         replaceText |-> value]]

_make_text_replace_request(placeholder, value) ==
    [replaceAllText |->
        [containsText |-> [text |-> L("{{") \o placeholder \o L("}}"),
                           matchCase |-> TRUE],
         replaceText |-> OrElse(value, L("N/A"))]]

\* the title of the presentation
PresentationTitle(d) ==
    L("OPORD ") \o Get(d, "operation_name", L("TBD")) \o L(" - ")
    \o Get(d, "unit_short", L("C/1-7 CAV"))

\* "\n".join(f"{u}: {t}" ...) over the items of a tasks dict, each line
\* behind an indent
TasksText(tasks, indent) ==
    join([i \in DOMAIN tasks |->
            indent \o tasks[i][1] \o L(": ") \o tasks[i][2]])

\* the replacement requests of the template mode, in the order built
TemplateRequests(d) ==
    LET ex == Get(d, "execution", EmptyForm)
        su == Get(d, "sustainment", EmptyForm)
        cs == Get(d, "command_and_signal", EmptyForm)
        sit == Get(d, "situation", EmptyForm)
        enemy == Get(sit, "enemy", EmptyForm)
        friendly == Get(sit, "friendly", EmptyForm)
        tasks_text ==
            Or(TasksText(Get(ex, "tasks_to_subordinates", << >>), << >>),
               L("Tasks TBD."))
        r(name, value) == _make_text_replace_request(L(name), value)
        f(m, k) == Get(m, k, << >>)
    IN <<
        r("UNIT_NAME", f(d, "unit")),
        r("OPERATION_NAME", f(d, "operation_name")),
        r("DTG", f(d, "dtg")),
        r("TIME_ZONE", f(d, "time_zone")),
        r("CLASSIFICATION", f(d, "classification")),
        r("REFERENCE_MAPS", f(d, "reference_maps")),
        r("SITUATION_ENEMY", join(<<
            L("Composition: ") \o f(enemy, "composition"),
            L("Disposition: ") \o f(enemy, "disposition"),
            L("Strength: ") \o f(enemy, "strength"),
            L("Recent Activity: ") \o f(enemy, "recent_activity"),
            L("Capabilities: ") \o f(enemy, "capabilities"),
            L("Most Likely COA: ") \o f(enemy, "most_likely_coa"),
            L("Most Dangerous COA: ") \o f(enemy, "most_dangerous_coa") >>)),
        r("ENEMY_COMPOSITION", f(enemy, "composition")),
        r("ENEMY_DISPOSITION", f(enemy, "disposition")),
        r("ENEMY_STRENGTH", f(enemy, "strength")),
        r("ENEMY_RECENT_ACTIVITY", f(enemy, "recent_activity")),
        r("ENEMY_CAPABILITIES", f(enemy, "capabilities")),
        r("ENEMY_MOST_LIKELY_COA", f(enemy, "most_likely_coa")),
        r("ENEMY_MOST_DANGEROUS_COA", f(enemy, "most_dangerous_coa")),
        r("SITUATION_FRIENDLY", f(friendly, "higher_hq_mission")),
        r("ADJACENT_UNITS", f(friendly, "adjacent_units")),
        r("SUPPORTING_UNITS", f(friendly, "supporting_units")),
        r("ATTACHMENTS_DETACHMENTS", f(sit, "attachments_detachments")),
        r("CIVIL_CONSIDERATIONS", f(sit, "civil_considerations")),
        r("MISSION", f(d, "mission")),
        r("INSERT_METHOD", f(d, "insert_method")),
        r("DZ_LZ", f(d, "dz_lz")),
        r("COMMANDERS_INTENT", f(ex, "commanders_intent")),
        r("CONCEPT_OF_OPS", f(ex, "concept_of_operations")),
        r("SCHEME_OF_MANEUVER", f(ex, "scheme_of_maneuver")),
        r("SCHEME_OF_FIRES", f(ex, "scheme_of_fires")),
        r("TASKS_TO_SUBORDINATES", tasks_text),
        r("COORDINATING_INSTRUCTIONS", f(ex, "coordinating_instructions")),
        r("RULES_OF_ENGAGEMENT", f(ex, "rules_of_engagement")),
        r("SUSTAINMENT_LOGISTICS", f(su, "logistics")),
        r("SUSTAINMENT_PERSONNEL", f(su, "personnel")),
        r("SUSTAINMENT_MEDICAL", f(su, "medical")),
        r("COMMAND_AND_SIGNAL",
            L("CP: ") \o f(cs, "command") \o L("  ")
            \o L("Succession: ") \o f(cs, "succession_of_command") \o L("  ")
            \o L("Signal: ") \o f(cs, "signal") \o L("  ")
            \o L("Frequencies: ") \o f(cs, "frequencies") \o L("  ")
            \o L("Challenge/Password: ") \o f(cs, "challenge_and_password")),
        r("CP_LOCATION", f(cs, "command")),
        r("SUCCESSION_OF_COMMAND", f(cs, "succession_of_command")),
        r("SIGNAL", f(cs, "signal")),
        r("FREQUENCIES", f(cs, "frequencies")),
        r("CHALLENGE_AND_PASSWORD", f(cs, "challenge_and_password")) >>


\* _build_slide_content(opord): the (title, body) pairs of the slides
\* (the dash of the titles is written "--")
_build_slide_content(opord) ==
    LET sit == Get(opord, "situation", EmptyForm)
        enemy == Get(sit, "enemy", EmptyForm)
        friendly == Get(sit, "friendly", EmptyForm)
        ex == Get(opord, "execution", EmptyForm)
        su == Get(opord, "sustainment", EmptyForm)
        cs == Get(opord, "command_and_signal", EmptyForm)
        f(m, k) == Get(m, k, L("N/A"))
        nl == <<"\n">>
    IN <<
        << L("OPORD ") \o Get(opord, "operation_name", L("TBD")) \o L(" -- ")
               \o Get(opord, "unit", << >>),
           Get(opord, "classification", DEFAULT_CLASSIFICATION) \o nl
               \o L("DTG: ") \o Get(opord, "dtg", << >>) \o nl
               \o L("Reference Maps: ") \o f(opord, "reference_maps") >>,
        << L("1. SITUATION -- Enemy Forces"),
           L("Composition: ") \o f(enemy, "composition") \o nl
               \o L("Disposition: ") \o f(enemy, "disposition") \o nl
               \o L("Strength: ") \o f(enemy, "strength") \o nl
               \o L("Recent Activity: ") \o f(enemy, "recent_activity") \o nl
               \o L("Capabilities: ") \o f(enemy, "capabilities") \o nl
               \o L("Most Likely COA: ") \o f(enemy, "most_likely_coa") \o nl
               \o L("Most Dangerous COA: ") \o f(enemy, "most_dangerous_coa") >>,
        << L("1. SITUATION -- Friendly Forces"),
           L("Higher HQ Mission: ") \o f(friendly, "higher_hq_mission") \o nl
               \o L("Adjacent Units: ") \o f(friendly, "adjacent_units") \o nl
               \o L("Supporting Units: ") \o f(friendly, "supporting_units") \o nl
               \o L("Attachments/Detachments: ")
               \o f(sit, "attachments_detachments") \o nl
               \o L("Civil Considerations: ") \o f(sit, "civil_considerations") >>,
        << L("2. MISSION"),
           f(opord, "mission") \o nl \o nl
               \o L("Insert Method: ") \o f(opord, "insert_method") \o nl
               \o L("DZ/LZ: ") \o f(opord, "dz_lz") >>,
        << L("3. EXECUTION -- Commander's Intent & Concept of Ops"),
           L("Commander's Intent:") \o nl \o f(ex, "commanders_intent")
               \o nl \o nl
               \o L("Concept of Operations:") \o nl
               \o f(ex, "concept_of_operations") >>,
        << L("3. EXECUTION -- Maneuver, Fires & Tasks"),
           L("Scheme of Maneuver:") \o nl \o f(ex, "scheme_of_maneuver")
               \o nl \o nl
               \o L("Scheme of Fires:") \o nl \o f(ex, "scheme_of_fires")
               \o nl \o nl
               \o L("Tasks to Subordinates:") \o nl
               \o TasksText(Get(ex, "tasks_to_subordinates", << >>), L("  ")) >>,
        << L("3. EXECUTION -- Coordinating Instructions & ROE"),
           L("Coordinating Instructions:") \o nl
               \o f(ex, "coordinating_instructions") \o nl \o nl
               \o L("Rules of Engagement:") \o nl
               \o f(ex, "rules_of_engagement") >>,
        << L("4. SUSTAINMENT"),
           L("Logistics:") \o nl \o f(su, "logistics") \o nl \o nl
               \o L("Personnel:") \o nl \o f(su, "personnel") \o nl \o nl
               \o L("Medical:") \o nl \o f(su, "medical") >>,
        << L("5. COMMAND AND SIGNAL"),
           L("CP Location: ") \o f(cs, "command") \o nl
               \o L("Succession of Command: ")
               \o f(cs, "succession_of_command") \o nl \o nl
               \o L("Signal:") \o nl \o f(cs, "signal") \o nl
               \o L("Frequencies: ") \o f(cs, "frequencies") \o nl
               \o L("Challenge/Password: ") \o f(cs, "challenge_and_password") >> >>

\* an insertText request
InsertText(object_id, text) ==
    [insertText |-> [objectId |-> object_id, insertionIndex |-> 0, text |-> text]]

\* _text_slide_requests: the insertText requests for the page elements of
\* the default slide; an element is [objectId, type], type being the type
\* of its placeholder ("" when it has none)
RECURSIVE _text_slide_requests(_, _, _, _)
_text_slide_requests(slide_id, page_elements, title_text, body_text) ==
    IF page_elements = << >> THEN << >>
    ELSE LET element == Head(page_elements)
             rest == _text_slide_requests(slide_id, Tail(page_elements),
                                          title_text, body_text)
         IN IF element.type \in {"CENTERED_TITLE", "TITLE"}
            THEN <<InsertText(element.objectId, title_text)>> \o rest
            ELSE IF element.type = "BODY"
            THEN <<InsertText(element.objectId, Cut(body_text, BODY_LIMIT))>> \o rest
            ELSE rest

\* f"{prefix}{idx}"
Ident(prefix, idx) == <<prefix, ToString(idx)>>

\* the requests that create slide idx (1 and up) and fill it
NewSlideRequests(idx, slide_title, slide_body) ==
    << [createSlide |->
           [objectId |-> Ident("slide_", idx),
            insertionIndex |-> idx,
            slideLayoutReference |-> [predefinedLayout |-> "TITLE_AND_BODY"],
            placeholderIdMappings |-> <<
                [layoutPlaceholder |-> [type |-> "CENTERED_TITLE", index |-> 0],
                 objectId |-> Ident("title_", idx)],
                [layoutPlaceholder |-> [type |-> "BODY", index |-> 0],
                 objectId |-> Ident("body_", idx)] >>]],
       InsertText(Ident("title_", idx), slide_title),
       InsertText(Ident("body_", idx), Cut(slide_body, BODY_LIMIT)) >>

\* a freeform loop that creates a slide for the first content as well
RECURSIVE FreeformRequestsCreatesAll(_, _, _)
FreeformRequestsCreatesAll(presentation, content, idx) ==
    IF idx >= Len(content) THEN << >>
    ELSE NewSlideRequests(idx, content[idx + 1][1], content[idx + 1][2])
         \o FreeformRequestsCreatesAll(presentation, content, idx + 1)

\* the requests of the freeform loop, for the contents idx (0-based) and up
RECURSIVE FreeformRequests(_, _, _)
FreeformRequests(presentation, content, idx) ==
    IF idx >= Len(content) THEN << >>
    ELSE (IF idx = 0
          THEN LET first_slide == presentation.slides[1]
               IN _text_slide_requests(first_slide.objectId,
                                       first_slide.pageElements,
                                       content[1][1], content[1][2])
          ELSE NewSlideRequests(idx, content[idx + 1][1], content[idx + 1][2]))
         \o FreeformRequests(presentation, content, idx + 1)

\* what the services answer: the copy of the template, the presentation
\* created (with its default first slide)
CopyResponse == [id |-> L("copy1")]
CreateResponse(g) ==
    [presentationId |-> L("new1"),
     slides |-> << [objectId |-> L("p"), pageElements |-> g.page_elements] >>]

\* what an export_to_slides call leaves: whether it raised, what it
\* returned (None, or Some URL), the token file, the authorization steps
\* and the service calls made, in order
ExportOutcome(raised, ret, c, calls) ==
    [raised |-> raised, ret |-> ret, token |-> c.token, steps |-> c.steps,
     calls |-> calls]

\* service calls in which the call that fails is made once more
ServiceCallsRetry(g, calls) ==
    IF g.fail_at \in 1..Len(calls)
    THEN SubSeq(calls, 1, g.fail_at) \o <<calls[g.fail_at]>> ELSE calls

\* the service calls of a mode, cut at the call the service fails (the
\* call g.fail_at raises; 0: none does)
ServiceCalls(g, calls) ==
    IF g.fail_at \in 1..Len(calls) THEN SubSeq(calls, 1, g.fail_at) ELSE calls

\* export_to_slides(opord_dict) in the environment g
export_to_slides(d, g) ==
    LET c == _get_credentials(g)
        title == PresentationTitle(d)
        template_id == g.GOOGLE_SLIDES_TEMPLATE_ID
        presentation == CreateResponse(g)
        presentation_id ==
            IF Truthy(template_id) THEN CopyResponse.id
            ELSE presentation.presentationId
        requests ==
            IF Truthy(template_id) THEN TemplateRequests(d)
            ELSE FreeformRequests(presentation, _build_slide_content(d), 0)
        first ==
            IF Truthy(template_id)
            THEN [api |-> "drive.files.copy", fileId |-> template_id,
                  body |-> [name |-> title]]
            ELSE [api |-> "slides.presentations.create",
                  body |-> [title |-> title]]
        batch ==
            [api |-> "slides.presentations.batchUpdate",
             presentationId |-> presentation_id,
             body |-> [requests |-> requests]]
        calls ==
            IF Truthy(template_id) \/ requests # << >>
            THEN <<first, batch>> ELSE <<first>>
    IN IF c.raised THEN ExportOutcome(TRUE, None, c, << >>)
       ELSE IF c.ret = None THEN ExportOutcome(FALSE, None, c, << >>)
       ELSE IF g.fail_at \in 1..Len(calls)
       THEN ExportOutcome(TRUE, None, c, ServiceCalls(g, calls))
       ELSE ExportOutcome(FALSE,
                     Some(L("https://docs.google.com/presentation/d/")
                          \o presentation_id \o L("/edit")),
                     c, calls)

\* the redirect to the index page that ends /export, with what it flashed
Redirected(flashed) ==
    [route |-> "/export", status |-> 302, template |-> "none",
     opord_text |-> None, opord |-> None, flashed |-> flashed]

\* an /export that reports a missing mapping as a failure of the export
ExportMissingIsFailure(sess, g) ==
    LET x == export_to_slides(Val(sess), g)
    IN IF sess = None
       THEN [response |-> Redirected(<<[category |-> "danger",
                 message |-> L("Export to Google Slides failed: ") \o L("exc")]>>),
             session |-> sess, called |-> FALSE,
             call |-> ExportOutcome(FALSE, None,
                                    [token |-> g.token, steps |-> << >>], << >>)]
       ELSE [response |->
                IF x.raised
                THEN Redirected(<<[category |-> "danger",
                        message |-> L("Export to Google Slides failed: ") \o L("exc")]>>)
                ELSE IF x.ret # None
                THEN Redirected(<<[category |-> "success",
                        message |-> L("Presentation created: ") \o Val(x.ret)]>>)
                ELSE Redirected(<<[category |-> "warning",
                        message |-> L("Google Slides export is not configured. ")
                            \o L("Set GOOGLE_CREDENTIALS_FILE in your .env file.")]>>),
             session |-> sess, called |-> TRUE, call |-> x]

\* an /export that forgets the stored mapping when the adapter raises
ExportDropsOnFailure(sess, g) ==
    LET x == export_to_slides(Val(sess), g)
    IN IF sess = None
       THEN [response |-> Redirected(<<[category |-> "warning",
                 message |-> L("No OPORD found in session. Please generate one first.")]>>),
             session |-> sess, called |-> FALSE,
             call |-> ExportOutcome(FALSE, None,
                                    [token |-> g.token, steps |-> << >>], << >>)]
       ELSE [response |->
                IF x.raised
                THEN Redirected(<<[category |-> "danger",
                        message |-> L("Export to Google Slides failed: ") \o L("exc")]>>)
                ELSE IF x.ret # None
                THEN Redirected(<<[category |-> "success",
                        message |-> L("Presentation created: ") \o Val(x.ret)]>>)
                ELSE Redirected(<<[category |-> "warning",
                        message |-> L("Google Slides export is not configured. ")
                            \o L("Set GOOGLE_CREDENTIALS_FILE in your .env file.")]>>),
             session |-> IF x.raised THEN None ELSE sess,
             called |-> TRUE, call |-> x]

\* export(): the handler of POST /export with the session's opord_dict in
\* the environment g; session is the opord_dict it leaves in the session
export(sess, g) ==
    LET x == export_to_slides(Val(sess), g)
    IN IF sess = None
       THEN [response |-> Redirected(<<[category |-> "warning",
                 message |-> L("No OPORD found in session. Please generate one first.")]>>),
             session |-> sess, called |-> FALSE,
             call |-> ExportOutcome(FALSE, None,
                                    [token |-> g.token, steps |-> << >>], << >>)]
       ELSE [response |->
                IF x.raised
                THEN Redirected(<<[category |-> "danger",
                        message |-> L("Export to Google Slides failed: ") \o L("exc")]>>)
                ELSE IF x.ret # None
                THEN Redirected(<<[category |-> "success",
                        message |-> L("Presentation created: ") \o Val(x.ret)]>>)
                ELSE Redirected(<<[category |-> "warning",
                        message |-> L("Google Slides export is not configured. ")
                            \o L("Set GOOGLE_CREDENTIALS_FILE in your .env file.")]>>),
             session |-> sess, called |-> TRUE, call |-> x]

(***************************************************************************)
(* The inputs: inbound mappings, environments, services                    *)
(***************************************************************************)
\* the keys _form_to_opord_data reads
TaskKeys == <<"task_1st", "task_2nd", "task_3rd", "task_weapons", "task_headquarters">>

RecognizedKeys == {
    "operation_name", "classification", "dtg", "reference_maps", "time_zone",
    "insert_method", "dz_lz",
    "enemy_composition", "enemy_disposition", "enemy_strength",
    "enemy_recent_activity", "enemy_capabilities", "enemy_most_likely_coa",
    "enemy_most_dangerous_coa",
    "friendly_higher_hq_mission", "friendly_adjacent_units",
    "friendly_supporting_units",
    "attachments_detachments", "civil_considerations", "mission",
    "commanders_intent", "concept_of_operations", "scheme_of_maneuver",
    "scheme_of_fires", "coordinating_instructions", "rules_of_engagement",
    "sustainment_logistics", "sustainment_personnel", "sustainment_medical",
    "command_cp", "succession_of_command", "signal", "frequencies",
    "challenge_and_password" } \cup Range(TaskKeys)

\* the keys a request may carry: the recognized ones and two others
Keys == RecognizedKeys \cup {"higher_commanders_intent", "extra"}

\* the values a key may carry: empty, blank, plain, padded
FormValues == { << >>, <<" ">>, <<"a">>, <<" ", "b", "\n">> }

\* the values a key of an enrichment call may carry: empty, blank, padded
EnrichValues == { << >>, <<" ">>, <<" ", "b", "\n">> }

\* how many keys an inbound mapping of the enrichment calls carries
MaxKeys == 1

RECURSIVE FormsUpTo(_)
FormsUpTo(n) ==
    IF n = 0 THEN {EmptyForm}
    ELSE LET prev == FormsUpTo(n - 1)
         IN prev \cup {Put(f, k, v) : f \in prev, k \in Keys, v \in EnrichValues}

Forms == FormsUpTo(MaxKeys)

\* the latest call of a batch that the service may fail
MaxFailAt == 3

Env(lib, key, model) ==
    [openai_available |-> lib, OPENAI_API_KEY |-> key, OPENAI_MODEL |-> model]

GoodKey == Some(<<"s", "k">>)
PlaceholderKey == Some(<<"your_", "k">>)

NoFault == [fail_at |-> 0, blank_at |-> 0]

\* an environment, a service behaviour and a model argument: the client
\* available with each service behaviour and each way to name the model,
\* and each way for the client to be unavailable
Scenarios ==
    {[env |-> Env(TRUE, GoodKey, None), collab |-> [fail_at |-> f, blank_at |-> 0],
      model |-> None] : f \in 0..MaxFailAt}
    \cup {[env |-> Env(TRUE, GoodKey, None), collab |-> [fail_at |-> 0, blank_at |-> 1],
           model |-> None]}
    \cup {[env |-> Env(TRUE, GoodKey, m[1]), collab |-> NoFault, model |-> m[2]] :
            m \in {<<None, Some(<<"m2">>)>>, <<Some(<<"m1">>), None>>,
                   <<Some(<<"m1">>), Some(<< >>)>>}}
    \cup {[env |-> Env(FALSE, GoodKey, None), collab |-> NoFault, model |-> None]}
    \cup {[env |-> Env(TRUE, k, None), collab |-> NoFault, model |-> None] :
            k \in {None, Some(<< >>), PlaceholderKey}}

(***************************************************************************)
(* The enrichment adapter as a state machine: a caller holding a mapping   *)
(* calls generate_full_opord on it; a caller holding none calls            *)
(* generate_section.                                                       *)
(***************************************************************************)
Idle == NotCalled

\* no Google environment: library absent, nothing on disk
NoGoogle ==
    [google_available |-> FALSE, token |-> "absent",
     credentials_file_exists |-> FALSE, auth_fails |-> FALSE,
     GOOGLE_SLIDES_TEMPLATE_ID |-> << >>, fail_at |-> 0,
     page_elements |-> << >>]

\* no slides_helper call made yet
NoExport ==
    [fn |-> "none", raised |-> FALSE, steps |-> << >>, calls |-> << >>]

\* no concurrent calls
InitRaceIdle ==
    /\ token_json = [content |-> None, writes |-> << >>]
    /\ threads = << >>

InitSlidesIdle ==
    /\ gcloud = NoGoogle
    /\ opord_dict = EmptyForm
    /\ exported = NoExport
    /\ InitRaceIdle

InitGenIdle ==
    /\ data = OPORDData
    /\ SUBORDINATE_UNITS = Catalog
    /\ text_out = None
    /\ dict_out = None
    /\ ncalls = 0
    /\ built = data

InitEnrich ==
    /\ \E sc \in Scenarios :
        /\ env = sc.env
        /\ collab = sc.collab
        /\ model_arg = sc.model
    /\ form_data \in Forms
    /\ outcome = Idle
    /\ InitGenIdle
    /\ InitSlidesIdle
    /\ request = EmptyForm
    /\ session = None
    /\ response = NoResponse

CallGenerateFullOpord ==
    LET g == generate_full_opord(form_data, model_arg, env, collab)
    IN /\ outcome' = Called(g, form_data)
       /\ form_data' = g.form_data
       /\ UNCHANGED <<envVars, model_arg, genVars, appVars, slideVars>>

CallGenerateSection ==
    LET g == generate_section(<<"Mission Statement">>, <<"n">>,
                              model_arg, env, collab, 1)
    IN /\ form_data = EmptyForm
       /\ outcome' = [fn |-> "generate_section", raised |-> g.raised,
                      input |-> EmptyForm, ret |-> g.ret,
                      requests |-> g.requests]
       /\ UNCHANGED <<envVars, form_data, model_arg, genVars, appVars, slideVars>>

NextEnrich == CallGenerateFullOpord \/ CallGenerateSection


(***************************************************************************)
(* The web application as a state machine: one browser session posting     *)
(* forms to /generate.                                                     *)
(***************************************************************************)
\* the keys of the forms posted: the first, a middle and the last target
\* of the enrichment, and keys of each other kind (defaulted, plain, task,
\* not read, unrecognized)
AppKeys ==
    {"enemy_capabilities", "commanders_intent", "signal",
     "classification", "time_zone", "operation_name", "task_1st",
     "higher_commanders_intent", "extra"}

\* the task texts posted: empty, blank, padded, of two lines
TaskValues == { << >>, <<" ">>, <<" ", "b", "\n">>, <<"a", "\n", "b">> }

\* the forms that carry tasks: the first and the fourth unit of the catalog
TaskForms ==
    {Put(Put(EmptyForm, "task_1st", v), "task_weapons", w) :
        v \in TaskValues, w \in TaskValues}

\* the forms posted: no key, one key, or two tasks, with or without the AI
\* box ticked
AppForms ==
    LET plain == {EmptyForm} \cup TaskForms \cup
                 {Put(EmptyForm, k, v) : k \in AppKeys, v \in FormValues}
    IN plain \cup {Put(f, "use_ai", <<"on">>) : f \in plain}

\* the environments and services of a session
AppScenarios == {sc \in Scenarios : sc.model = None /\ sc.env.OPENAI_MODEL = None}

InitApp ==
    /\ \E sc \in AppScenarios :
        /\ env = sc.env
        /\ collab = sc.collab
    /\ model_arg = None
    /\ form_data = EmptyForm
    /\ outcome = Idle
    /\ InitGenIdle
    /\ InitSlidesIdle
    /\ request = EmptyForm
    /\ session = None
    /\ response = NoResponse

\* POST /generate with the form posted
GenerateForm(form) ==
    \E h \in {generate(form, session, env, collab, SUBORDINATE_UNITS, data)} :
        /\ request' = form
        /\ response' = h.response
        /\ session' = h.session
        /\ outcome' = h.call
        /\ form_data' = h.flat
        /\ data' = h.data
        /\ text_out' = h.text
        /\ dict_out' = h.dict
        /\ built' = h.data
        /\ UNCHANGED <<envVars, model_arg, SUBORDINATE_UNITS, ncalls, slideVars>>

Generate == \E form \in AppForms : GenerateForm(form)

Next == Generate


(***************************************************************************)
(* The generator as a state machine: one OPORDGenerator over one instance, *)
(* its two methods called any number of times in any order.                *)
(***************************************************************************)
\* the leaf fields of the entity tree, by path
LeafPaths == {
    "operation_name", "classification", "dtg", "reference_maps", "time_zone",
    "insert_method", "dz_lz", "mission",
    "enemy.composition", "enemy.disposition", "enemy.strength",
    "enemy.recent_activity", "enemy.capabilities", "enemy.most_likely_coa",
    "enemy.most_dangerous_coa",
    "friendly.higher_hq_mission", "friendly.adjacent_units",
    "friendly.supporting_units",
    "attachments_detachments", "civil_considerations",
    "commanders_intent", "higher_commanders_intent", "concept_of_operations",
    "scheme_of_maneuver", "scheme_of_fires", "coordinating_instructions",
    "rules_of_engagement",
    "logistics", "personnel", "medical",
    "command", "succession_of_command", "signal", "frequencies",
    "challenge_and_password" }

\* dataclasses.replace on one leaf: d with the field at path p set to v
SetLeaf(d, p, v) ==
    CASE p = "operation_name" -> [d EXCEPT !.operation_name = v]
      [] p = "classification" -> [d EXCEPT !.classification = v]
      [] p = "dtg" -> [d EXCEPT !.dtg = v]
      [] p = "reference_maps" -> [d EXCEPT !.reference_maps = v]
      [] p = "time_zone" -> [d EXCEPT !.time_zone = v]
      [] p = "insert_method" -> [d EXCEPT !.insert_method = v]
      [] p = "dz_lz" -> [d EXCEPT !.dz_lz = v]
      [] p = "mission" -> [d EXCEPT !.mission = v]
      [] p = "enemy.composition" -> [d EXCEPT !.situation.enemy.composition = v]
      [] p = "enemy.disposition" -> [d EXCEPT !.situation.enemy.disposition = v]
      [] p = "enemy.strength" -> [d EXCEPT !.situation.enemy.strength = v]
      [] p = "enemy.recent_activity" -> [d EXCEPT !.situation.enemy.recent_activity = v]
      [] p = "enemy.capabilities" -> [d EXCEPT !.situation.enemy.capabilities = v]
      [] p = "enemy.most_likely_coa" -> [d EXCEPT !.situation.enemy.most_likely_coa = v]
      [] p = "enemy.most_dangerous_coa" -> [d EXCEPT !.situation.enemy.most_dangerous_coa = v]
      [] p = "friendly.higher_hq_mission" -> [d EXCEPT !.situation.friendly.higher_hq_mission = v]
      [] p = "friendly.adjacent_units" -> [d EXCEPT !.situation.friendly.adjacent_units = v]
      [] p = "friendly.supporting_units" -> [d EXCEPT !.situation.friendly.supporting_units = v]
      [] p = "attachments_detachments" -> [d EXCEPT !.situation.attachments_detachments = v]
      [] p = "civil_considerations" -> [d EXCEPT !.situation.civil_considerations = v]
      [] p = "commanders_intent" -> [d EXCEPT !.execution.commanders_intent = v]
      [] p = "higher_commanders_intent" -> [d EXCEPT !.execution.higher_commanders_intent = v]
      [] p = "concept_of_operations" -> [d EXCEPT !.execution.concept_of_operations = v]
      [] p = "scheme_of_maneuver" -> [d EXCEPT !.execution.scheme_of_maneuver = v]
      [] p = "scheme_of_fires" -> [d EXCEPT !.execution.scheme_of_fires = v]
      [] p = "coordinating_instructions" -> [d EXCEPT !.execution.coordinating_instructions = v]
      [] p = "rules_of_engagement" -> [d EXCEPT !.execution.rules_of_engagement = v]
      [] p = "logistics" -> [d EXCEPT !.sustainment.logistics = v]
      [] p = "personnel" -> [d EXCEPT !.sustainment.personnel = v]
      [] p = "medical" -> [d EXCEPT !.sustainment.medical = v]
      [] p = "command" -> [d EXCEPT !.command_and_signal.command = v]
      [] p = "succession_of_command" -> [d EXCEPT !.command_and_signal.succession_of_command = v]
      [] p = "signal" -> [d EXCEPT !.command_and_signal.signal = v]
      [] p = "frequencies" -> [d EXCEPT !.command_and_signal.frequencies = v]
      [] p = "challenge_and_password" -> [d EXCEPT !.command_and_signal.challenge_and_password = v]

\* the leaf at path p, through the mapping's mirrored path
GetLeaf(d, p) ==
    CASE p = "operation_name" -> d.operation_name
      [] p = "classification" -> d.classification
      [] p = "dtg" -> d.dtg
      [] p = "reference_maps" -> d.reference_maps
      [] p = "time_zone" -> d.time_zone
      [] p = "insert_method" -> d.insert_method
      [] p = "dz_lz" -> d.dz_lz
      [] p = "mission" -> d.mission
      [] p = "enemy.composition" -> d.situation.enemy.composition
      [] p = "enemy.disposition" -> d.situation.enemy.disposition
      [] p = "enemy.strength" -> d.situation.enemy.strength
      [] p = "enemy.recent_activity" -> d.situation.enemy.recent_activity
      [] p = "enemy.capabilities" -> d.situation.enemy.capabilities
      [] p = "enemy.most_likely_coa" -> d.situation.enemy.most_likely_coa
      [] p = "enemy.most_dangerous_coa" -> d.situation.enemy.most_dangerous_coa
      [] p = "friendly.higher_hq_mission" -> d.situation.friendly.higher_hq_mission
      [] p = "friendly.adjacent_units" -> d.situation.friendly.adjacent_units
      [] p = "friendly.supporting_units" -> d.situation.friendly.supporting_units
      [] p = "attachments_detachments" -> d.situation.attachments_detachments
      [] p = "civil_considerations" -> d.situation.civil_considerations
      [] p = "commanders_intent" -> d.execution.commanders_intent
      [] p = "higher_commanders_intent" -> d.execution.higher_commanders_intent
      [] p = "concept_of_operations" -> d.execution.concept_of_operations
      [] p = "scheme_of_maneuver" -> d.execution.scheme_of_maneuver
      [] p = "scheme_of_fires" -> d.execution.scheme_of_fires
      [] p = "coordinating_instructions" -> d.execution.coordinating_instructions
      [] p = "rules_of_engagement" -> d.execution.rules_of_engagement
      [] p = "logistics" -> d.sustainment.logistics
      [] p = "personnel" -> d.sustainment.personnel
      [] p = "medical" -> d.sustainment.medical
      [] p = "command" -> d.command_and_signal.command
      [] p = "succession_of_command" -> d.command_and_signal.succession_of_command
      [] p = "signal" -> d.command_and_signal.signal
      [] p = "frequencies" -> d.command_and_signal.frequencies
      [] p = "challenge_and_password" -> d.command_and_signal.challenge_and_password

\* the strings a leaf field is drawn from: empty, plain, blank, multi-line
LeafValues == { << >>, <<"a">>, <<" ">>, <<"a", "\n", "b">> }

\* the task dicts an instance is drawn from: empty, one entry, two entries
\* out of catalog order, an entry with an empty task, an entry with a task
\* of two lines
TaskDicts == {
    << >>,
    << <<Catalog[1], <<"t">>>> >>,
    << <<Catalog[4], <<"w">>>>, <<Catalog[1], <<"t">>>> >>,
    << <<Catalog[2], << >>>> >>,
    << <<Catalog[5], <<"a", "\n", "b">>>> >> }

\* how many fields of an instance differ from the dataclass defaults
MaxSet == 1

\* an instance with every field populated
Populated ==
    [operation_name |-> <<"x">>,
     classification |-> <<"x">>,
     dtg |-> <<"x">>,
     reference_maps |-> <<"x">>,
     time_zone |-> <<"x">>,
     insert_method |-> <<"x">>,
     dz_lz |-> <<"x">>,
     situation |-> Situation(
         EnemyForces(<<"x">>, <<"x">>, <<"x">>, <<"x">>, <<"x">>, <<"x">>, <<"x">>),
         FriendlyForces(<<"x">>, <<"x">>, <<"x">>), <<"x">>, <<"x">>),
     mission |-> <<"x">>,
     execution |-> Execution(<<"x">>, <<"x">>, <<"x">>, <<"x">>, <<"x">>,
                             << <<Catalog[3], <<"x">>>>, <<Catalog[2], <<"y">>>> >>,
                             <<"x">>, <<"x">>),
     sustainment |-> Sustainment(<<"x">>, <<"x">>, <<"x">>),
     command_and_signal |-> CommandAndSignal(<<"x">>, <<"x">>, <<"x">>, <<"x">>,
                                             <<"x">>)]

\* how many method calls one generator receives
MaxCalls == 2

RECURSIVE InstancesUpTo(_)
InstancesUpTo(n) ==
    IF n = 0 THEN {OPORDData, Populated}
    ELSE LET prev == InstancesUpTo(n - 1)
         IN prev
            \cup {SetLeaf(d, p, v) : d \in prev, p \in LeafPaths, v \in LeafValues}
            \cup {[d EXCEPT !.execution.tasks_to_subordinates = t] :
                    d \in prev, t \in TaskDicts}

Instances == InstancesUpTo(MaxSet)

InitGen ==
    /\ data \in Instances
    /\ SUBORDINATE_UNITS = Catalog
    /\ text_out = None
    /\ dict_out = None
    /\ ncalls = 0
    /\ built = data
    /\ env = Env(FALSE, None, None)
    /\ collab = NoFault
    /\ form_data = EmptyForm
    /\ model_arg = None
    /\ outcome = Idle
    /\ request = EmptyForm
    /\ session = None
    /\ response = NoResponse
    /\ InitSlidesIdle

GenerateText ==
    LET c == TextCall(data, SUBORDINATE_UNITS)
    IN /\ ncalls < MaxCalls
       /\ ncalls' = ncalls + 1
       /\ text_out' = Some(c.ret)
       /\ data' = c.data
       /\ UNCHANGED <<SUBORDINATE_UNITS, dict_out, built, envVars, enrichVars,
                    appVars, slideVars>>

GenerateDict ==
    LET c == DictCall(data, SUBORDINATE_UNITS)
    IN /\ ncalls < MaxCalls
       /\ ncalls' = ncalls + 1
       /\ dict_out' = Some(c.ret)
       /\ data' = c.data
       /\ UNCHANGED <<SUBORDINATE_UNITS, text_out, built, envVars, enrichVars,
                    appVars, slideVars>>

NextGen == GenerateText \/ GenerateDict

(***************************************************************************)
(* The generator and a caller that changes the mapping generate_dict       *)
(* returned.  The mapping's tasks_to_subordinates is the dict object of    *)
(* the instance and its subordinate_units is the module's list object, so  *)
(* a change through the mapping is a change of data and of                 *)
(* SUBORDINATE_UNITS; text_out and dict_out keep what the calls returned.  *)
(***************************************************************************)
AliasInstances ==
    {Populated} \cup
    {[OPORDData EXCEPT !.execution.tasks_to_subordinates = t] : t \in TaskDicts}

InitAlias ==
    /\ data \in AliasInstances
    /\ built = data
    /\ SUBORDINATE_UNITS = Catalog
    /\ text_out = None
    /\ dict_out = None
    /\ ncalls = 0
    /\ env = Env(FALSE, None, None)
    /\ collab = NoFault
    /\ form_data = EmptyForm
    /\ model_arg = None
    /\ outcome = Idle
    /\ request = EmptyForm
    /\ session = None
    /\ response = NoResponse
    /\ InitSlidesIdle

\* returned["subordinate_units"].append(unit)
AppendUnit ==
    /\ dict_out # None
    /\ Len(SUBORDINATE_UNITS) = Len(Catalog)
    /\ SUBORDINATE_UNITS' = Append(SUBORDINATE_UNITS, L("Recon Section"))
    /\ UNCHANGED <<data, text_out, dict_out, ncalls, built, envVars, enrichVars,
                   appVars, slideVars>>

\* returned["execution"]["tasks_to_subordinates"][unit] = task
SetTask ==
    /\ dict_out # None
    /\ \A i \in DOMAIN data.execution.tasks_to_subordinates :
          data.execution.tasks_to_subordinates[i][1] # Catalog[2]
    /\ data' = [data EXCEPT !.execution.tasks_to_subordinates =
                    Append(@, <<Catalog[2], <<"z">>>>)]
    /\ UNCHANGED <<SUBORDINATE_UNITS, text_out, dict_out, ncalls, built, envVars,
                   enrichVars, appVars, slideVars>>

\* OPORDGenerator(d): another generator, over another instance
Construct ==
    /\ ncalls < MaxCalls
    /\ \E d \in AliasInstances :
          /\ data' = d
          /\ built' = d
    /\ text_out' = None
    /\ dict_out' = None
    /\ UNCHANGED <<SUBORDINATE_UNITS, ncalls, envVars, enrichVars, appVars,
                   slideVars>>

NextAlias ==
    \/ GenerateText
    \/ GenerateDict
    \/ AppendUnit
    \/ SetTask
    \/ Construct

(***************************************************************************)
(* The export adapter as a state machine: a caller holding a mapping calls *)
(* export_to_slides, _build_slide_content or _make_text_replace_request;   *)
(* a browser whose session holds the mapping posts to /export.             *)
(***************************************************************************)
\* the page elements of the default first slide: a title and a subtitle,
\* a title and a body, none
PageElements == {
    << [objectId |-> L("i0"), type |-> "CENTERED_TITLE"],
       [objectId |-> L("i1"), type |-> "SUBTITLE"] >>,
    << [objectId |-> L("i0"), type |-> "TITLE"],
       [objectId |-> L("i1"), type |-> "BODY"] >>,
    << >> }

\* the service call that fails: none, the first, the second
ServiceFaults == {0, 1, 2}

\* the environments of a call: every state of the library, the token file
\* and the credentials file, each export mode, each answer of the services
GoogleEnvs ==
    {g \in [google_available : BOOLEAN,
            token : {"absent", "valid", "expired", "invalid", "malformed"},
            credentials_file_exists : BOOLEAN,
            auth_fails : BOOLEAN,
            GOOGLE_SLIDES_TEMPLATE_ID : {<< >>, <<"T1">>},
            fail_at : ServiceFaults,
            page_elements : PageElements] :
        /\ ~g.google_available =>
              /\ g.token = "absent" /\ ~g.auth_fails /\ g.fail_at = 0
              /\ g.GOOGLE_SLIDES_TEMPLATE_ID = << >>
        /\ g.token \in {"valid", "malformed"} => ~g.auth_fails
        /\ g.token = "malformed" => g.credentials_file_exists /\ g.fail_at = 0
        /\ g.auth_fails => g.fail_at = 0
        /\ (g.GOOGLE_SLIDES_TEMPLATE_ID # << >> \/ ~g.google_available
            \/ g.fail_at # 0) => g.page_elements = << >>}

\* a text of n characters
LongText(n) == [i \in 1..n |-> "a"]

\* the mappings passed to the adapter: what generate_dict returns for the
\* default instance, for a populated one and for one with the higher
\* commander's intent only; a mapping without keys; a mapping with few
\* keys; a mapping whose texts make slide bodies longer than the limit of
\* a body (overview, mission, intent) and one exactly as long
\* (coordinating instructions)
ExportDicts == {
    [reference_maps |-> LongText(BODY_LIMIT + 1),
     mission |-> LongText(BODY_LIMIT + 1),
     execution |-> [commanders_intent |-> LongText(BODY_LIMIT - 25),
                    coordinating_instructions |-> LongText(BODY_LIMIT - 53)]],
    generate_dict(OPORDData, Catalog),
    generate_dict(Populated, Catalog),
    generate_dict(SetLeaf(OPORDData, "higher_commanders_intent", <<"h">>), Catalog),
    EmptyForm,
    [operation_name |-> <<"x">>,
     situation |-> [enemy |-> [composition |-> <<"c">>]]] }

\* the placeholder names and the values of a direct call of the request
\* builder
PlaceholderNames == {"DTG", "dtg"}
PlaceholderValues == {<< >>, PyNone, <<"a">>, <<" ">>}

InitSlides ==
    /\ gcloud \in GoogleEnvs
    /\ opord_dict \in ExportDicts
    /\ exported = NoExport
    /\ InitRaceIdle
    /\ session = (IF Has(opord_dict, "subordinate_units")
                  THEN Some(opord_dict) ELSE None)
    /\ request = EmptyForm
    /\ response = NoResponse
    /\ InitGenIdle
    /\ env = Env(FALSE, None, None)
    /\ collab = NoFault
    /\ form_data = EmptyForm
    /\ model_arg = None
    /\ outcome = Idle

CallExportToSlides ==
    \E x \in {export_to_slides(opord_dict, gcloud)} :
        /\ exported' = [fn |-> "export_to_slides", via |-> "call",
                        input |-> opord_dict,
                        env |-> gcloud, raised |-> x.raised, ret |-> x.ret,
                        steps |-> x.steps, calls |-> x.calls]
        /\ gcloud' = [gcloud EXCEPT !.token = x.token]
        /\ UNCHANGED <<opord_dict, raceVars, genVars, envVars, enrichVars, appVars>>

Export ==
    \E h \in {export(session, gcloud)} :
        /\ response' = h.response
        /\ exported' =
              IF h.called
              THEN [fn |-> "export_to_slides", via |-> "/export",
                    input |-> Val(session), env |-> gcloud, raised |-> h.call.raised,
                    ret |-> h.call.ret, steps |-> h.call.steps,
                    calls |-> h.call.calls]
              ELSE NoExport
        /\ gcloud' = [gcloud EXCEPT !.token = h.call.token]
        /\ session' = h.session
        /\ UNCHANGED <<request, opord_dict, raceVars, genVars, envVars, enrichVars>>

CallBuildSlideContent ==
    /\ exported' = [fn |-> "_build_slide_content", input |-> opord_dict,
                    raised |-> FALSE, ret |-> _build_slide_content(opord_dict),
                    steps |-> << >>, calls |-> << >>]
    /\ UNCHANGED <<gcloud, opord_dict, raceVars, genVars, envVars, enrichVars, appVars>>

CallMakeTextReplaceRequest ==
    \E name \in PlaceholderNames, value \in PlaceholderValues :
        /\ exported' = [fn |-> "_make_text_replace_request",
                        input |-> <<L(name), value>>, raised |-> FALSE,
                        ret |-> _make_text_replace_request(L(name), value),
                        steps |-> << >>, calls |-> << >>]
        /\ UNCHANGED <<gcloud, opord_dict, raceVars, genVars, envVars, enrichVars, appVars>>

NextSlides ==
    \/ CallExportToSlides
    \/ Export
    \/ CallBuildSlideContent
    \/ CallMakeTextReplaceRequest

(***************************************************************************)
(* One browser session: /generate and /export requests in any order, in   *)
(* each Google environment.  session["opord_dict"] holds str, dict and     *)
(* list values only, which the session's serializer returns as they were.  *)
(***************************************************************************)
\* the forms posted in a session
SessionForms ==
    {EmptyForm, Put(EmptyForm, "operation_name", <<"a">>),
     Put(EmptyForm, "task_1st", <<"b">>)}

\* the Google environments of a session: those whose default slide has no
\* page elements
SessionEnvs == {g \in GoogleEnvs : g.page_elements = << >>}

InitSession ==
    /\ gcloud \in SessionEnvs
    /\ opord_dict = EmptyForm
    /\ exported = NoExport
    /\ InitRaceIdle
    /\ session = None
    /\ request = EmptyForm
    /\ response = NoResponse
    /\ InitGenIdle
    /\ env = Env(FALSE, None, None)
    /\ collab = NoFault
    /\ form_data = EmptyForm
    /\ model_arg = None
    /\ outcome = Idle

SessionGenerate == \E form \in SessionForms : GenerateForm(form)

NextSession ==
    \/ SessionGenerate
    \/ Export

(***************************************************************************)
(* Two concurrent export calls in _get_credentials, the library present.   *)
(* A step is a statement that reads or writes token.json, or a call of the *)
(* authorization service; open(TOKEN_FILE, "w") empties the file and the   *)
(* write that follows puts the JSON at its start.                          *)
(***************************************************************************)
Threads == {1, 2}

\* the lengths, in blocks, of the JSON of a credential
TokenLens == {2, 3}

Started ==
    [pc |-> "start", loaded |-> "-", creds |-> None, wrote |-> FALSE]

InitRace ==
    /\ gcloud \in {g \in GoogleEnvs :
                      /\ g.google_available
                      /\ g.token \in {"absent", "valid", "expired"}
                      /\ ~g.auth_fails
                      /\ g.fail_at = 0
                      /\ g.GOOGLE_SLIDES_TEMPLATE_ID = << >>
                      /\ g.page_elements = << >>}
    /\ \E n \in TokenLens :
          token_json = [content |-> IF gcloud.token = "absent" THEN None
                                    ELSE Some(Token(0, n)),
                        writes |-> << >>]
    /\ threads = [p \in Threads |-> Started]
    /\ opord_dict = EmptyForm
    /\ exported = NoExport
    /\ session = None
    /\ request = EmptyForm
    /\ response = NoResponse
    /\ InitGenIdle
    /\ env = Env(FALSE, None, None)
    /\ collab = NoFault
    /\ form_data = EmptyForm
    /\ model_arg = None
    /\ outcome = Idle

RaceFrame ==
    UNCHANGED <<gcloud, opord_dict, exported, genVars, envVars, enrichVars, appVars>>

\* lines 65-67: os.path.exists(TOKEN_FILE), from_authorized_user_file
Load(p) ==
    /\ threads[p].pc = "start"
    /\ \E st \in {Loaded(token_json.content, gcloud)} :
          threads' = [threads EXCEPT ![p] =
              [@ EXCEPT !.pc = AfterLoad(st), !.loaded = st,
                        !.creds = IF st \in {"valid", "expired"}
                                  THEN token_json.content ELSE None]]
    /\ UNCHANGED token_json
    /\ RaceFrame

\* line 71: creds.refresh(Request())
Refresh(p) ==
    /\ threads[p].pc = "refresh"
    /\ \E n \in TokenLens :
          threads' = [threads EXCEPT ![p] =
              [@ EXCEPT !.pc = "open", !.creds = Some(Token(p, n))]]
    /\ UNCHANGED token_json
    /\ RaceFrame

\* lines 73-76: return None without the credentials file, else the flow
Flow(p) ==
    /\ threads[p].pc = "flow"
    /\ IF ~gcloud.credentials_file_exists
       THEN threads' = [threads EXCEPT ![p] = [@ EXCEPT !.pc = "return"]]
       ELSE \E n \in TokenLens :
               threads' = [threads EXCEPT ![p] =
                   [@ EXCEPT !.pc = "open", !.creds = Some(Token(p, n))]]
    /\ UNCHANGED token_json
    /\ RaceFrame

\* line 77: open(TOKEN_FILE, "w")
Open(p) ==
    /\ threads[p].pc = "open"
    /\ token_json' = [token_json EXCEPT !.content = Some(<< >>)]
    /\ threads' = [threads EXCEPT ![p] = [@ EXCEPT !.pc = "write"]]
    /\ RaceFrame

\* line 78: token.write(creds.to_json()), and the close of the file
Write(p) ==
    /\ threads[p].pc = "write"
    /\ token_json' =
          [content |-> Some(Overlay(Val(threads[p].creds), Val(token_json.content))),
           writes |-> Append(token_json.writes, <<p, Val(threads[p].creds)>>)]
    /\ threads' = [threads EXCEPT ![p] =
                      [@ EXCEPT !.pc = "return", !.wrote = TRUE]]
    /\ RaceFrame

NextRace ==
    \E p \in Threads :
        \/ Load(p)
        \/ Refresh(p)
        \/ Flow(p)
        \/ Open(p)
        \/ Write(p)

vars == <<genVars, envVars, enrichVars, appVars, slideVars>>

Spec == InitApp /\ [][Next]_vars

SpecGen == InitGen /\ [][NextGen]_vars

SpecEnrich == InitEnrich /\ [][NextEnrich]_vars

SpecSlides == InitSlides /\ [][NextSlides]_vars

SpecSession == InitSession /\ [][NextSession]_vars

SpecAlias == InitAlias /\ [][NextAlias]_vars

SpecRace == InitRace /\ [][NextRace]_vars

\* the seven markers of C9, in the order the claim gives them
Markers ==
    <<"OPERATION ORDER ", "1. SITUATION", "2. MISSION", "3. EXECUTION",
      "4. SUSTAINMENT", "5. COMMAND AND SIGNAL", "ACKNOWLEDGE">>

\* line is the k-th marker: the title line begins with the first marker,
\* every other marker is a whole line
IsMarker(line, k) ==
    IF k = 1 THEN line # << >> /\ line[1] = Markers[1]
    ELSE line = <<Markers[k]>>

\* the index of the line holding the last marker when markers k.. are
\* found in order at or after line `from`; 0 when they are not
RECURSIVE MarkersFrom(_, _, _)
MarkersFrom(lines, from, k) ==
    LET hits == {i \in from..Len(lines) : IsMarker(lines[i], k)}
    IN IF hits = {} THEN 0
       ELSE LET i == CHOOSE j \in hits : \A h \in hits : j <= h
            IN IF k = Len(Markers) THEN i ELSE MarkersFrom(lines, i + 1, k + 1)

StartsWith(s, pre) == Len(s) >= Len(pre) /\ SubSeq(s, 1, Len(pre)) = pre
EndsWith(s, suf) ==
    Len(s) >= Len(suf) /\ SubSeq(s, Len(s) - Len(suf) + 1, Len(s)) = suf

(***************************************************************************)
(* Claims about the enrichment adapter (SpecEnrich)                        *)
(***************************************************************************)
TargetKeys == {auto_fill_fields[i][1] : i \in DOMAIN auto_fill_fields}

LabelOf(key) ==
    LET i == CHOOSE j \in DOMAIN auto_fill_fields : auto_fill_fields[j][1] = key
    IN auto_fill_fields[i][2]

\* the sections the requests of a batch asked for, in the order issued
Sections(requests) == [j \in DOMAIN requests |-> SectionOf(requests[j])]

\* the targets that are absent from m or empty in it, in list order
BlankTargets(m) ==
    SelectSeq([i \in DOMAIN auto_fill_fields |-> auto_fill_fields[i]],
              LAMBDA f : ~Has(m, f[1]) \/ m[f[1]] = << >>)

FullOpordCalled == outcome.fn = "generate_full_opord"

\* the client is unavailable, in the claim's words: the library is absent,
\* or the API key is unset, empty or a "your_" placeholder
Unavailable(e) ==
    \/ ~e.openai_available
    \/ e.OPENAI_API_KEY = None
    \/ Val(e.OPENAI_API_KEY) = << >>
    \/ Head(Val(e.OPENAI_API_KEY)) = "your_"

\* C1: generate_full_opord never overwrites a non-empty value.  Whatever
\* the mapping, the model identifier and the service's responses, every
\* key whose input value is a non-empty string has that value in the
\* mapping returned, and no request is issued for that key's section.
C1_NeverOverwrites ==
    FullOpordCalled =>
        \A k \in DOMAIN outcome.input :
            outcome.input[k] # << >> =>
                /\ ~outcome.raised =>
                      Has(outcome.ret, k) /\ outcome.ret[k] = outcome.input[k]
                /\ k \in TargetKeys =>
                      LabelOf(k) \notin Range(Sections(outcome.requests))

\* a batch that kept a non-empty target and issued requests for the others
C1_Witness ==
    /\ FullOpordCalled
    /\ ~outcome.raised
    /\ outcome.requests # << >>
    /\ \E k \in TargetKeys \cap DOMAIN outcome.input :
          outcome.input[k] # << >> /\ outcome.ret[k] = outcome.input[k]

\* C2: with the client available and every call succeeding, one request
\* is issued for each target that is absent or empty in the input, in list
\* order, and no other; each such field holds the text returned for it
\* (stripped), every other key of the input is returned unchanged, and the
\* keys returned are those of the input and the eleven targets.
C2_FillsBlanks ==
    (FullOpordCalled /\ ~Unavailable(env) /\ ~outcome.raised) =>
        LET blanks == BlankTargets(outcome.input)
            blankKeys == {blanks[j][1] : j \in DOMAIN blanks}
        IN /\ Sections(outcome.requests) = [j \in DOMAIN blanks |-> blanks[j][2]]
           /\ \A j \in DOMAIN blanks :
                 outcome.ret[blanks[j][1]] =
                     strip(Create(outcome.requests[j], j, collab).content)
           /\ \A k \in DOMAIN outcome.input \ blankKeys :
                 outcome.ret[k] = outcome.input[k]
           /\ DOMAIN outcome.ret = DOMAIN outcome.input \cup TargetKeys

\* a batch over a mapping with an empty target, a key outside the targets
\* or a non-empty target: every blank target was filled
C2_Witness ==
    /\ FullOpordCalled
    /\ ~outcome.raised
    /\ outcome.input # EmptyForm
    /\ Len(outcome.requests) >= Len(auto_fill_fields) - 1
    /\ outcome.ret["signal"] = <<"AI:", "Command and Signal paragraph">>

\* the service fails a call the batch makes
BatchFails ==
    /\ FullOpordCalled
    /\ ~Unavailable(env)
    /\ collab.fail_at \in 1..Len(BlankTargets(outcome.input))

\* C3 as stated: a failed call for one target does not abort the batch.
\* The other blank targets are still requested and filled, and only the
\* failed field is left with an empty result.
C3_FieldLevelFailure ==
    BatchFails =>
        LET blanks == BlankTargets(outcome.input)
        IN /\ ~outcome.raised
           /\ Sections(outcome.requests) = [j \in DOMAIN blanks |-> blanks[j][2]]
           /\ \A j \in DOMAIN blanks :
                 outcome.ret[blanks[j][1]] = << >> <=> j = collab.fail_at

\* C3 amended: a failed call for one target aborts the batch.  The
\* exception leaves generate_full_opord, which returns no mapping; the
\* requests issued are those of the blank targets up to the failed one, in
\* list order, and none for a later target; the caller's mapping is as it
\* was before the call.
C3_BatchAborts ==
    BatchFails =>
        LET blanks == BlankTargets(outcome.input)
        IN /\ outcome.raised
           /\ Sections(outcome.requests) =
                 [j \in 1..collab.fail_at |-> blanks[j][2]]
           /\ form_data = outcome.input

\* a batch whose third call failed, after two that succeeded
C3_Witness ==
    /\ BatchFails
    /\ collab.fail_at = 3
    /\ Len(outcome.requests) = 3
    /\ outcome.raised

\* C6: with the client unavailable generate_full_opord returns a mapping
\* equal to its input and issues no request, and generate_section returns
\* the empty string and issues no request.
C6_UnavailableIsNoOp ==
    Unavailable(env) =>
        /\ FullOpordCalled =>
              /\ ~outcome.raised
              /\ outcome.ret = outcome.input
              /\ outcome.requests = << >>
        /\ outcome.fn = "generate_section" =>
              /\ ~outcome.raised
              /\ outcome.ret = << >>
              /\ outcome.requests = << >>

\* generate_full_opord ran under a placeholder key on a mapping with blank
\* targets
C6_Witness ==
    /\ FullOpordCalled
    /\ env.OPENAI_API_KEY = PlaceholderKey
    /\ outcome.input # EmptyForm
    /\ outcome.ret = outcome.input


(***************************************************************************)
(* Claims about the /generate route (Spec)                                 *)
(***************************************************************************)
Generated == response.route = "/generate"

\* the request of the last /generate asked for AI and a call of its batch
\* raised
EnrichmentFailed ==
    /\ Generated
    /\ Has(request, "use_ai")
    /\ ~Unavailable(env)
    /\ collab.fail_at \in 1..Len(BlankTargets(Remove(request, "use_ai")))

\* C4: every /generate request completes with a rendered document.
\* Whatever the form and the enrichment outcome (not requested, client
\* unavailable, every call succeeding, a call raising), the response is
\* the result page with the OPORD text, paragraph markers in order, and the
\* nested mapping, which is stored in the session; an enrichment failure
\* shows only as one flashed warning beside that page.
C4_AlwaysRenders ==
    Generated =>
        /\ response.status = 200
        /\ response.template = "result.html"
        /\ response.opord_text # None
        /\ MarkersFrom(Lines(Val(response.opord_text)), 1, 1) # 0
        /\ response.opord # None
        /\ session = response.opord
        /\ \A i \in DOMAIN response.flashed :
              response.flashed[i].category = "warning"
        /\ Len(response.flashed) = (IF EnrichmentFailed THEN 1 ELSE 0)

\* a /generate whose enrichment raised ended in the result page, with a
\* warning
C4_Witness ==
    /\ EnrichmentFailed
    /\ outcome.raised
    /\ response.status = 200
    /\ Len(response.flashed) = 1
    /\ session # None

\* the string holds a piece written by the text-completion service
HasGenerated(str) == "AI:" \in Range(str)

\* C5: when a completion call raises during /generate with AI requested,
\* the document is built from the inbound mapping as posted: the mapping
\* the handler holds is the posted one, and no text of the service, from
\* an earlier call of the batch that succeeded, is in the rendered text or
\* in any leaf of the stored mapping.
C5_FailedBatchLeavesRawMapping ==
    EnrichmentFailed =>
        /\ form_data = Remove(request, "use_ai")
        /\ ~HasGenerated(Val(response.opord_text))
        /\ \A p \in LeafPaths : ~HasGenerated(GetLeaf(Val(session), p))

\* a batch whose first two calls succeeded and whose third raised
C5_Witness ==
    /\ EnrichmentFailed
    /\ outcome.raised
    /\ Len(outcome.requests) = 3
    /\ response.status = 200

\* C8: the classification is never empty.  Whatever the form (key absent,
\* present with an empty or blank value, or set), the OPORDData built by
\* _form_to_opord_data has a non-empty classification, and the first and
\* the last line of the rendered text are not empty.
C8_ClassificationNeverEmpty ==
    Generated =>
        LET lines == Lines(Val(response.opord_text))
        IN /\ data.classification # << >>
           /\ lines[1] # << >>
           /\ lines[Len(lines)] # << >>


C9_FirstLastLine ==
    text_out # None =>
        LET lines == Lines(Val(text_out))
            ack == MarkersFrom(lines, 2, 1)
        IN /\ lines[1] = data.classification
           /\ lines[Len(lines)] = data.classification
           /\ ack # 0
           /\ ack < Len(lines)

\* C9 amended: the text begins with the classification string followed by
\* a line break and ends with a line break followed by the classification
\* string, so that a classification without a line break is exactly the
\* first and the last line; between the two copies the seven markers
\* appear in order, ACKNOWLEDGE before the trailing copy.
C9_ClassificationFrame ==
    text_out # None =>
        LET lines == Lines(Val(text_out))
            c == data.classification
            n == Len(Lines(c))
            ack == MarkersFrom(lines, n + 1, 1)
        IN /\ StartsWith(Val(text_out), c \o <<"\n">>)
           /\ EndsWith(Val(text_out), <<"\n">> \o c)
           /\ ("\n" \notin Range(c) =>
                  lines[1] = c /\ lines[Len(lines)] = c)
           /\ ack # 0
           /\ ack <= Len(lines) - n

\* a text was rendered for a classification that is not the default one
C9_Witness ==
    /\ text_out # None
    /\ data.classification = <<"a">>
    /\ Lines(Val(text_out))[1] = <<"a">>

\* every free-text leaf is empty (the heading's classification and time
\* zone, which have non-empty defaults, and the tasks are left free)
AllLeavesEmpty(d) ==
    \A p \in LeafPaths \ {"classification", "time_zone"} : GetLeaf(d, p) = << >>

\* the labels of the lines that carry one field each
EnemyLabels == {
    "     Composition:        ", "     Disposition:        ",
    "     Strength:           ", "     Recent Activity:    ",
    "     Capabilities:       ", "     Most Likely COA:    ",
    "     Most Dangerous COA: " }

FieldLabels ==
    EnemyLabels \cup {
        "     Higher HQ Mission:  ", "     Adjacent Units:     ",
        "     Supporting Units:   ", "     ", "  ",
        "     Purpose:    ", "     Succession of Command:   ",
        "     CP Location:             ", "     Frequencies:             ",
        "     Challenge / Password:    ", "Reference Map(s): " }

\* C10: with every leaf field empty no field line is blank: each of the 7
\* enemy lines reads "Not reported.", the friendly lines "See higher
\* OPORD." and "None identified." twice, the attachments line "None.", the
\* civil line "None assessed at this time.", the mission "Mission not
\* specified.", the sustainment, succession, CP-location, frequencies and
\* challenge/password lines their fallbacks, and the header "TBD", "DTG
\* TBD" and "N/A".
C10_Fallbacks ==
    (text_out # None /\ AllLeavesEmpty(data)) =>
        LET lines == Lines(Val(text_out))
            has(l) == l \in Range(lines)
        IN /\ \A lab \in EnemyLabels : has(<<lab, "Not reported.">>)
           /\ Cardinality({i \in DOMAIN lines :
                  EndsWith(lines[i], <<"Not reported.">>)}) = 7
           /\ has(<<"     Higher HQ Mission:  ", "See higher OPORD.">>)
           /\ has(<<"     Adjacent Units:     ", "None identified.">>)
           /\ has(<<"     Supporting Units:   ", "None identified.">>)
           /\ has(<<"     ", "None.">>)
           /\ has(<<"     ", "None assessed at this time.">>)
           /\ has(<<"  ", "Mission not specified.">>)
           /\ has(<<"     ", "Standard combat load. Resupply via higher HQ.">>)
           /\ has(<<"     ", "See unit manning roster.">>)
           /\ has(<<"     ", "Casevac IAW unit SOP. Nearest MTF: TBD.">>)
           /\ has(<<"     Succession of Command:   ",
                    "1PSG, then 1PLT LDR, then 2PLT LDR">>)
           /\ has(<<"     CP Location:             ", "TBD">>)
           /\ has(<<"     Frequencies:             ", "See signal annex.">>)
           /\ has(<<"     Challenge / Password:    ", "TBD">>)
           /\ has(<<"OPERATION ORDER ", "TBD", "-XX">>)
           /\ \E i \in DOMAIN lines : StartsWith(lines[i], <<"(", "DTG TBD", " ">>)
           /\ has(<<"Reference Map(s): ", "N/A">>)
           /\ \A lab \in FieldLabels : ~has(<<lab>>)

\* the text of the all-default instance was rendered
C10_Witness ==
    /\ text_out # None
    /\ data = OPORDData
    /\ <<"     Composition:        ", "Not reported.">> \in Range(Lines(Val(text_out)))


(***************************************************************************)
(* Claims about the tasks to subordinate units                             *)
(***************************************************************************)
TasksHeading == L("  f. Tasks to Subordinate Units.")
CoordinatingHeading == L("  g. Coordinating Instructions.")

\* the index of the first line of lines that equals line; 0 when none does
IndexOf(lines, line) ==
    LET hits == {i \in DOMAIN lines : lines[i] = line}
    IN IF hits = {} THEN 0 ELSE CHOOSE i \in hits : \A h \in hits : i <= h

\* sub-paragraph 3f of a text: its lines after the heading of 3f, up to
\* the blank line before the heading of 3g
Section3f(text) ==
    LET lines == Lines(text)
    IN SubSeq(lines, IndexOf(lines, TasksHeading) + 1,
              IndexOf(lines, CoordinatingHeading) - 2)

\* the line of 3f for a unit and its task
TaskLine(unit, task) == L("     (") \o unit \o L("): ") \o task

\* the line of 3f for a unit when no task is given
TbdLine(unit) == L("     (") \o unit \o L("): Tasks TBD.")

\* the lines of 3f that are about a unit
LinesAbout(text, unit) ==
    {i \in DOMAIN Section3f(text) :
        StartsWith(Section3f(text)[i], L("     (") \o unit \o L("): "))}

\* the units of a tasks dict
UnitsOf(tasks) == {tasks[i][1] : i \in DOMAIN tasks}

\* the tasks dict holds the catalog units whose task is not blank, once
\* each, with the trimmed task
HoldsNonBlankTasks(tasks, flat) ==
    /\ \A i \in DOMAIN TaskUnits :
          LET val == strip(Get(flat, TaskUnits[i][2], << >>))
          IN IF val = << >> THEN TaskUnits[i][1] \notin UnitsOf(tasks)
             ELSE <<TaskUnits[i][1], val>> \in Range(tasks)
    /\ UnitsOf(tasks) \subseteq Range(Catalog)
    /\ Cardinality(UnitsOf(tasks)) = Len(tasks)
    /\ \A i \in DOMAIN tasks : tasks[i][2] # << >>

\* C11 as stated: tasks_to_subordinates holds the catalog units whose task
\* is not blank after trimming; each pair is a line of the text's 3f and
\* an entry of the mapping; a unit whose task is blank is in neither.
C11_TasksInBothRenderings ==
    Generated =>
        LET tasks == data.execution.tasks_to_subordinates
            text == Val(response.opord_text)
            stored == Val(session).execution.tasks_to_subordinates
        IN /\ HoldsNonBlankTasks(tasks, form_data)
           /\ \A i \in DOMAIN tasks :
                 /\ TaskLine(tasks[i][1], tasks[i][2]) \in Range(Section3f(text))
                 /\ tasks[i] \in Range(stored)
           /\ \A u \in Range(Catalog) \ UnitsOf(tasks) :
                 /\ LinesAbout(text, u) = {}
                 /\ u \notin UnitsOf(stored)

\* C11 amended: tasks_to_subordinates holds the catalog units whose task
\* is not blank after trimming, and the mapping's tasks_to_subordinates is
\* equal to it.  When it is not empty, 3f of the text is its entries
\* "(unit): task", one after the other, each starting a line (an entry is
\* one line when its task has no line break), and no line of 3f is about a
\* unit whose task is blank; when every task is blank, 3f names every
\* catalog unit, tagged "Tasks TBD.".
C11_TasksRoundTrip ==
    Generated =>
        LET tasks == data.execution.tasks_to_subordinates
            text == Val(response.opord_text)
            stored == Val(session).execution.tasks_to_subordinates
        IN /\ HoldsNonBlankTasks(tasks, form_data)
           /\ stored = tasks
           /\ tasks # << >> =>
                 /\ join(Section3f(text)) =
                       join([i \in DOMAIN tasks |->
                               TaskLine(tasks[i][1], tasks[i][2])])
                 /\ \A u \in Range(Catalog) \ UnitsOf(tasks) :
                       LinesAbout(text, u) = {}
           /\ tasks = << >> =>
                 Section3f(text) =
                     [i \in DOMAIN Catalog |-> TbdLine(Catalog[i])]

\* a form with a padded task for the first unit and a blank one for the
\* fourth was rendered
C11_Witness ==
    /\ Generated
    /\ Has(request, "task_weapons") /\ request["task_weapons"] = <<" ">>
    /\ data.execution.tasks_to_subordinates =
          << <<Catalog[1], <<"b">>>> >>
    /\ TaskLine(Catalog[1], <<"b">>) \in Range(Section3f(Val(response.opord_text)))

TopKeys ==
    {"unit", "unit_short", "unit_type", "higher_hq", "classification",
     "operation_name", "dtg", "time_zone", "reference_maps", "insert_method",
     "dz_lz", "situation", "mission", "execution", "sustainment",
     "command_and_signal", "subordinate_units"}

\* C13: generate_dict returns, for every leaf field of the entity tree,
\* the raw value of the field at the mirrored path (an empty field stays
\* empty, no fallback phrase takes its place), the tasks as they are, the
\* four constants unit, unit_short, unit_type and higher_hq, and the whole
\* 5-unit catalog under subordinate_units.
C13_RawMapping ==
    dict_out # None =>
        LET m == Val(dict_out)
        IN /\ DOMAIN m = TopKeys
           /\ \A p \in LeafPaths : GetLeaf(m, p) = GetLeaf(data, p)
           /\ m.execution.tasks_to_subordinates =
                 data.execution.tasks_to_subordinates
           /\ m.unit = UNIT_NAME
           /\ m.unit_short = UNIT_SHORT
           /\ m.unit_type = UNIT_TYPE
           /\ m.higher_hq = HIGHER_HQ
           /\ m.subordinate_units = Catalog
           /\ Len(m.subordinate_units) = 5

\* the mapping of the all-default instance was rendered: its empty fields
\* are empty in the mapping
C13_Witness ==
    /\ dict_out # None
    /\ data = OPORDData
    /\ Val(dict_out).mission = << >>
    /\ Val(dict_out).situation.enemy.composition = << >>
    /\ Val(dict_out).unit_short = UNIT_SHORT

(***************************************************************************)
(* Claims about paragraph 2                                                *)
(***************************************************************************)
\* paragraph 2 of a text: its lines after the heading of paragraph 2, up
\* to the heading of paragraph 3
Paragraph2(text) ==
    LET lines == Lines(text)
    IN SubSeq(lines, IndexOf(lines, L("2. MISSION")) + 1,
              IndexOf(lines, L("3. EXECUTION")) - 1)

\* the lines that begin with a label
Labelled(lines, label) == {i \in DOMAIN lines : StartsWith(lines[i], label)}

\* the lines hold, one after the other, the lines of str
HoldsLines(lines, str) ==
    LET want == Lines(str)
    IN \E i \in DOMAIN lines :
          /\ i + Len(want) - 1 <= Len(lines)
          /\ SubSeq(lines, i, i + Len(want) - 1) = want

\* C14: in paragraph 2 of generate_text the "Insert Method:" line is there
\* if and only if insert_method is not empty, and the "DZ/LZ:" line if and
\* only if dz_lz is not empty, each whatever the other is; the line shows
\* the value, an empty value leaves the line out and no fallback stands in
\* for it, whereas an empty mission is replaced by "Mission not
\* specified.".
C14_OptionalMissionLines ==
    text_out # None =>
        LET p2 == Paragraph2(Val(text_out))
            insert == Labelled(p2, L("  Insert Method: "))
            dz == Labelled(p2, L("  DZ/LZ: "))
        IN /\ (insert # {}) <=> (data.insert_method # << >>)
           /\ (dz # {}) <=> (data.dz_lz # << >>)
           /\ data.insert_method # << >> =>
                 /\ Cardinality(insert) = 1
                 /\ HoldsLines(p2, L("  Insert Method: ") \o data.insert_method)
           /\ data.dz_lz # << >> =>
                 /\ Cardinality(dz) = 1
                 /\ HoldsLines(p2, L("  DZ/LZ: ") \o data.dz_lz)
           /\ IF data.mission = << >>
              THEN p2[2] = <<"  ", "Mission not specified.">>
              ELSE /\ HoldsLines(p2, L("  ") \o data.mission)
                   /\ "Mission not specified." \notin Range(Val(text_out))

\* the text of an instance with an insert method, no DZ/LZ and no mission
\* was rendered
C14_Witness ==
    /\ text_out # None
    /\ data.insert_method = <<"a">>
    /\ data.dz_lz = << >>
    /\ data.mission = << >>
    /\ <<"  Insert Method: ", "a">> \in Range(Paragraph2(Val(text_out)))

(***************************************************************************)
(* Claims about the inbound mapping                                        *)
(***************************************************************************)
\* C15: _form_to_opord_data ignores unrecognized keys and treats an absent
\* key like a key present with the empty string.  For every recognized key
\* the mapping of a request does not carry, the same mapping with that key
\* present and empty gives an equal OPORDData; and adding an unrecognized
\* key, whatever its value, gives an equal OPORDData.
C15_AbsentIsEmpty ==
    Generated =>
        /\ data = _form_to_opord_data(form_data)
        /\ \A k \in RecognizedKeys \ DOMAIN form_data :
              _form_to_opord_data(Put(form_data, k, << >>)) = data
        /\ \A k \in (Keys \ RecognizedKeys) \ DOMAIN form_data :
              \A v \in FormValues :
                  _form_to_opord_data(Put(form_data, k, v)) = data

(***************************************************************************)
(* Claims about the export adapter (SpecSlides)                            *)
(***************************************************************************)
ExportCalled == exported.fn = "export_to_slides"

\* /export handled the last request and called the adapter
ExportPosted ==
    ExportCalled /\ exported.via = "/export" /\ response.route = "/export"

NotConfiguredWarning ==
    [category |-> "warning",
     message |-> L("Google Slides export is not configured. ")
                 \o L("Set GOOGLE_CREDENTIALS_FILE in your .env file.")]

\* the unavailable cases as the claim names them: the library is absent,
\* or the credentials file (configured, or the default one when none is
\* configured) is missing
NamedUnavailable(g) == ~g.google_available \/ ~g.credentials_file_exists

\* the cases in which the code has no credentials: the library is absent,
\* or token.json holds no usable token (it is absent, or its credentials
\* are invalid and cannot be refreshed) and the credentials file is missing
NoCredentials(g) ==
    \/ ~g.google_available
    \/ g.token \in {"absent", "invalid"} /\ ~g.credentials_file_exists

\* a successful export returned a URL that is not empty
UrlReturned ==
    /\ ~exported.raised
    /\ exported.ret # None
    /\ Val(exported.ret) # << >>
    /\ StartsWith(Val(exported.ret), L("https://docs.google.com/presentation/d/"))

\* C16 as stated: whenever the library is absent or the credentials file
\* is missing, export_to_slides returns None, does not raise and calls no
\* service; a successful export returns a URL that is not empty; /export
\* reports a None with the "not configured" warning.
C16_UnavailableReturnsNone ==
    ExportCalled =>
        /\ NamedUnavailable(exported.env) =>
              /\ ~exported.raised
              /\ exported.ret = None
              /\ exported.calls = << >>
        /\ (~exported.raised /\ exported.ret # None) => UrlReturned
        /\ (ExportPosted /\ ~exported.raised /\ exported.ret = None) =>
              response.flashed = <<NotConfiguredWarning>>

\* C16 amended: export_to_slides returns None, without raising, without an
\* authorization step and without a service call, exactly when it has no
\* credentials: the library is absent, or token.json holds no usable token
\* and the credentials file is missing.  A missing credentials file alone
\* is not such a case: with a valid token in token.json the export goes on
\* and calls the services, with an expired one it refreshes the token.  A
\* call that neither raises nor returns None returns a URL that is not
\* empty, and /export answers a None with the "not configured" warning,
\* and nothing else with it.
C16_NoCredentialsReturnsNone ==
    ExportCalled =>
        /\ NoCredentials(exported.env) <=>
              (~exported.raised /\ exported.ret = None)
        /\ NoCredentials(exported.env) =>
              exported.calls = << >> /\ exported.steps = << >>
        /\ (exported.env.google_available /\ exported.env.token = "valid") =>
              exported.calls # << >>
        /\ (exported.env.google_available /\ exported.env.token = "expired") =>
              exported.steps = <<"refresh">>
        /\ (~exported.raised /\ exported.ret # None) => UrlReturned
        /\ ExportPosted =>
              /\ response.status = 302
              /\ (response.flashed = <<NotConfiguredWarning>>) <=>
                    (~exported.raised /\ exported.ret = None)

\* /export found the library present, no token and no credentials file,
\* and flashed the "not configured" warning
C16_Witness ==
    /\ ExportPosted
    /\ exported.env.google_available
    /\ exported.env.token = "absent"
    /\ ~exported.env.credentials_file_exists
    /\ exported.ret = None
    /\ exported.calls = << >>
    /\ response.flashed = <<NotConfiguredWarning>>

\* the batchUpdate of the last export, when it was made in template mode
TemplateBatchMade ==
    /\ ExportCalled
    /\ Truthy(exported.env.GOOGLE_SLIDES_TEMPLATE_ID)
    /\ Len(exported.calls) = 2

BatchRequests == exported.calls[2].body.requests

RequestBuilt == exported.fn = "_make_text_replace_request"

\* C17: for every placeholder name and value the request matches the token
\* "{{NAME}}", case-sensitively, and replaces it with the value when the
\* value is not empty, else (empty string, None) with "N/A"; so no request
\* of a template-mode batch carries an empty replacement text.
C17_ReplaceRequest ==
    /\ RequestBuilt =>
          LET name == exported.input[1]
              value == exported.input[2]
              req == exported.ret.replaceAllText
          IN /\ DOMAIN exported.ret = {"replaceAllText"}
             /\ req.containsText.text = L("{{") \o name \o L("}}")
             /\ req.containsText.matchCase = TRUE
             /\ req.replaceText =
                   (IF value = << >> \/ value = PyNone THEN L("N/A") ELSE value)
    /\ TemplateBatchMade =>
          /\ exported.calls[2].api = "slides.presentations.batchUpdate"
          /\ BatchRequests # << >>
          /\ \A i \in 1..Len(BatchRequests) :
                /\ BatchRequests[i].replaceAllText.containsText.matchCase
                /\ BatchRequests[i].replaceAllText.replaceText # << >>
                /\ BatchRequests[i].replaceAllText.replaceText # PyNone

\* a template-mode batch was made for a mapping whose leaves are all empty,
\* and its DTG request replaces the token with "N/A"
C17_Witness ==
    /\ TemplateBatchMade
    /\ exported.input = generate_dict(OPORDData, Catalog)
    /\ \E i \in 1..Len(BatchRequests) :
          BatchRequests[i] = _make_text_replace_request(L("DTG"), << >>)
    /\ _make_text_replace_request(L("DTG"), << >>).replaceAllText.replaceText
          = L("N/A")

\* the text leaves of a mapping that generate_dict returned
TextLeaves(d) ==
    {d[k] : k \in TopKeys \ {"situation", "execution", "sustainment",
                             "command_and_signal", "subordinate_units"}}
    \cup {d.situation.enemy[k] : k \in DOMAIN d.situation.enemy}
    \cup {d.situation.friendly[k] : k \in DOMAIN d.situation.friendly}
    \cup {d.situation.attachments_detachments, d.situation.civil_considerations}
    \cup {d.execution[k] : k \in DOMAIN d.execution \ {"tasks_to_subordinates"}}
    \cup {d.sustainment[k] : k \in DOMAIN d.sustainment}
    \cup {d.command_and_signal[k] : k \in DOMAIN d.command_and_signal}

\* C18: the template-mode batch covers every leaf of the mapping of
\* generate_dict: for each leaf there is a request whose replacement is the
\* leaf's value, or "N/A" when the value is empty.
C18_EveryLeafHasRequest ==
    (TemplateBatchMade /\ Has(exported.input, "subordinate_units")) =>
        \A v \in TextLeaves(exported.input) :
            \E i \in 1..Len(BatchRequests) :
                BatchRequests[i].replaceAllText.replaceText = Or(v, L("N/A"))

SlideContentBuilt == exported.fn = "_build_slide_content"

\* the labels of the slide bodies that stand before their value on its
\* line, and those that stand on the line above it
InlineLabels ==
    {"DTG: ", "Reference Maps: ", "Composition: ", "Disposition: ",
     "Strength: ", "Recent Activity: ", "Capabilities: ", "Most Likely COA: ",
     "Most Dangerous COA: ", "Higher HQ Mission: ", "Adjacent Units: ",
     "Supporting Units: ", "Attachments/Detachments: ",
     "Civil Considerations: ", "Insert Method: ", "DZ/LZ: ", "CP Location: ",
     "Succession of Command: ", "Frequencies: ", "Challenge/Password: "}

HeadLabels ==
    {"Commander's Intent:", "Concept of Operations:", "Scheme of Maneuver:",
     "Scheme of Fires:", "Coordinating Instructions:", "Rules of Engagement:",
     "Logistics:", "Personnel:", "Medical:", "Signal:"}

\* no labelled line of a body has an empty value
ValuesShown(body) ==
    LET lines == Lines(body)
    IN \A i \in 1..Len(lines) :
          /\ ~(\E l \in InlineLabels : lines[i] = L(l))
          /\ (\E l \in HeadLabels : lines[i] = L(l)) =>
                (i < Len(lines) /\ lines[i + 1] # << >>)

\* C19: in freeform mode a field that is absent from the mapping, or present
\* with an empty value, appears in its slide body as "N/A": no labelled
\* line of a slide body has an empty value.
C19_MissingFieldsAreNA ==
    SlideContentBuilt =>
        \A n \in 1..Len(exported.ret) : ValuesShown(exported.ret[n][2])

\* the titles of the nine slides behind "OPORD <name> -- <unit>", in order
SectionTitles == <<
    L("1. SITUATION -- Enemy Forces"),
    L("1. SITUATION -- Friendly Forces"),
    L("2. MISSION"),
    L("3. EXECUTION -- Commander's Intent & Concept of Ops"),
    L("3. EXECUTION -- Maneuver, Fires & Tasks"),
    L("3. EXECUTION -- Coordinating Instructions & ROE"),
    L("4. SUSTAINMENT"),
    L("5. COMMAND AND SIGNAL") >>

\* the batchUpdate of the last export, when it was made in freeform mode
FreeformBatchMade ==
    /\ ExportCalled
    /\ ~Truthy(exported.env.GOOGLE_SLIDES_TEMPLATE_ID)
    /\ Len(exported.calls) = 2

IsCreate(req) == "createSlide" \in DOMAIN req

Creations(requests) == SelectSeq(requests, IsCreate)

\* the object a request writes into, or creates
Target(req) ==
    IF IsCreate(req) THEN req.createSlide.objectId ELSE req.insertText.objectId

\* C20: freeform mode gives exactly 9 slides in the fixed order whatever
\* fields are populated; slide 1 reuses the default slide of the
\* presentation (no creation request), slides 2 to 9 are created once
\* each, with the title+body layout, at insertion indexes 1 to 8, under
\* pairwise distinct object identifiers.
C20_NineSlides ==
    /\ SlideContentBuilt =>
          /\ Len(exported.ret) = 9
          /\ StartsWith(exported.ret[1][1], L("OPORD "))
          /\ \A n \in 1..8 : exported.ret[n + 1][1] = SectionTitles[n]
    /\ FreeformBatchMade =>
          LET requests == BatchRequests
              created == Creations(requests)
              defaults == {e.objectId : e \in Range(exported.env.page_elements)}
              ids == {created[n].createSlide.objectId : n \in 1..Len(created)}
                     \cup {created[n].createSlide.placeholderIdMappings[m].objectId :
                              n \in 1..Len(created), m \in 1..2}
          IN /\ exported.calls[1].api = "slides.presentations.create"
             /\ Len(created) = 8
             /\ \A n \in 1..8 :
                   /\ created[n].createSlide.insertionIndex = n
                   /\ created[n].createSlide.slideLayoutReference.predefinedLayout
                         = "TITLE_AND_BODY"
             /\ Cardinality(ids) = 24
             /\ ids \cap defaults = {}
             /\ \A i \in 1..Len(requests) :
                   \/ IsCreate(requests[i])
                   \/ Target(requests[i]) \in defaults
                   \/ \E j \in 1..(i - 1) :
                         /\ IsCreate(requests[j])
                         /\ \E m \in 1..2 :
                               requests[j].createSlide.placeholderIdMappings[m].objectId
                                  = Target(requests[i])
             /\ \A n \in 1..8 :
                   \E i \in 1..Len(requests) :
                      /\ ~IsCreate(requests[i])
                      /\ requests[i].insertText.objectId = Ident("title_", n)
                      /\ requests[i].insertText.text = SectionTitles[n]

\* a freeform export of a mapping with every field empty was made into a
\* presentation whose default slide has a title and a body, and returned
\* its URL
C20_Witness ==
    /\ FreeformBatchMade
    /\ UrlReturned
    /\ exported.input = generate_dict(OPORDData, Catalog)
    /\ Len(exported.env.page_elements) = 2
    /\ ~IsCreate(BatchRequests[1])
    /\ Len(Creations(BatchRequests)) = 8

\* the last export reached the presentation service
ServiceReached == ExportCalled /\ exported.calls # << >>

Creation(g) ==
    IF Truthy(g.GOOGLE_SLIDES_TEMPLATE_ID) THEN "drive.files.copy"
    ELSE "slides.presentations.create"

ExportFailedFlash ==
    [category |-> "danger",
     message |-> L("Export to Google Slides failed: ") \o L("exc")]

\* C21: an export that reaches the presentation service makes exactly one
\* creation (copy of the template, or create) and then at most one
\* batchUpdate, in that order and never twice; when the creation or the
\* batch fails the error reaches the caller (/export reports an export
\* failure), no URL is returned and no call is made again.
C21_OneCreationOneBatch ==
    ServiceReached =>
        LET g == exported.env
            calls == exported.calls
        IN /\ calls[1].api = Creation(g)
           /\ Len(calls) <= 2
           /\ Len(calls) = 2 =>
                 /\ calls[2].api = "slides.presentations.batchUpdate"
                 /\ calls[2].presentationId =
                       (IF Truthy(g.GOOGLE_SLIDES_TEMPLATE_ID)
                        THEN CopyResponse.id ELSE CreateResponse(g).presentationId)
           /\ g.fail_at \in {1, 2} =>
                 /\ exported.raised
                 /\ exported.ret = None
                 /\ Len(calls) = g.fail_at
                 /\ ExportPosted => response.flashed = <<ExportFailedFlash>>
           /\ g.fail_at = 0 =>
                 /\ ~exported.raised
                 /\ Len(calls) = 2
                 /\ UrlReturned

\* /export copied the template, the batchUpdate failed, and the failure
\* was flashed
C21_Witness ==
    /\ ExportPosted
    /\ ServiceReached
    /\ exported.env.fail_at = 2
    /\ Truthy(exported.env.GOOGLE_SLIDES_TEMPLATE_ID)
    /\ Len(exported.calls) = 2
    /\ exported.raised
    /\ response.flashed = <<ExportFailedFlash>>

(***************************************************************************)
(* Claims about a session of /generate and /export requests (SpecSession)  *)
(***************************************************************************)
\* C22: over any sequence of /generate and /export requests of a session,
\* /export leaves the stored mapping as it was, whatever its outcome, and
\* the stored mapping is at every point the one the most recent /generate
\* produced (dict_out is what generate_dict returned last; there is none
\* before the first /generate); so the export called is always called on
\* that mapping, a retry after a failure included.
C22_StoredMappingIsLastGenerated ==
    /\ session = dict_out
    /\ (response.route = "/generate") => session = response.opord
    /\ (response.route = "/export" /\ ExportCalled) =>
          /\ session # None
          /\ exported.input = Val(session)

\* an /export that followed a /generate failed in the service, and the
\* session still holds the mapping generated
C22_Witness ==
    /\ response.route = "/export"
    /\ ExportCalled
    /\ exported.raised
    /\ exported.calls # << >>
    /\ request = Put(EmptyForm, "operation_name", <<"a">>)
    /\ session # None
    /\ Val(session).operation_name = <<"a">>
    /\ session = dict_out

NothingToExportFlash ==
    [category |-> "warning",
     message |-> L("No OPORD found in session. Please generate one first.")]

SuccessFlash(url) ==
    [category |-> "success", message |-> L("Presentation created: ") \o url]

\* the outcome /export reported last: which of the four messages it flashed
Reported ==
    {o \in {"nothing", "unavailable", "failure", "success"} :
        \/ o = "nothing" /\ response.flashed = <<NothingToExportFlash>>
        \/ o = "unavailable" /\ response.flashed = <<NotConfiguredWarning>>
        \/ o = "failure" /\ response.flashed = <<ExportFailedFlash>>
        \/ o = "success" /\ Len(response.flashed) = 1
              /\ response.flashed[1].category = "success"}

\* C23: /export with no stored mapping reports "nothing to export" and
\* does not call the adapter; the outcomes nothing-to-export, unavailable,
\* failure and success exclude each other and each has its own message, so
\* a missing mapping is never reported as a failure of the service.
C23_FourOutcomes ==
    response.route = "/export" =>
        /\ response.status = 302
        /\ Cardinality(Reported) = 1
        /\ ("nothing" \in Reported) <=> (session = None)
        /\ (session = None) => (exported = NoExport)
        /\ (session # None) =>
              /\ ExportCalled /\ exported.via = "/export"
              /\ ("failure" \in Reported) <=> exported.raised
              /\ ("unavailable" \in Reported) <=>
                    (~exported.raised /\ exported.ret = None)
              /\ ("success" \in Reported) <=>
                    (UrlReturned /\
                     response.flashed = <<SuccessFlash(Val(exported.ret))>>)

\* /export was requested before any /generate in an environment where the
\* export would succeed, and reported that there is nothing to export
C23_Witness ==
    /\ response.route = "/export"
    /\ session = None
    /\ gcloud.google_available /\ gcloud.token = "valid" /\ gcloud.fail_at = 0
    /\ exported = NoExport
    /\ response.flashed = <<NothingToExportFlash>>

(***************************************************************************)
(* Claims about the bodies of a freeform batch (SpecSlides)                *)
(***************************************************************************)
\* the characters of a str as one string
RECURSIVE Chars(_)
Chars(str) ==
    IF str = << >> THEN ""
    ELSE IF Len(str) = 1 THEN str[1]
    ELSE LET m == Len(str) \div 2
         IN Chars(SubSeq(str, 1, m)) \o Chars(SubSeq(str, m + 1, Len(str)))

\* the first n characters of a string
Prefix(chars, n) == IF Len(chars) <= n THEN chars ELSE SubSeq(chars, 1, n)

\* the slide contents of the last export
ExportContent == _build_slide_content(exported.input)

\* the identifiers of the body elements of the default slide
DefaultBodies ==
    {e.objectId : e \in {x \in Range(exported.env.page_elements) : x.type = "BODY"}}

\* the slide (1 to 9) whose body an insertText request fills, 0 when it
\* fills no body
BodyOf(req) ==
    IF IsCreate(req) THEN 0
    ELSE IF req.insertText.objectId \in DefaultBodies THEN 1
    ELSE IF \E n \in 1..8 : req.insertText.objectId = Ident("body_", n)
    THEN 1 + CHOOSE n \in 1..8 : req.insertText.objectId = Ident("body_", n)
    ELSE 0

\* C24: every body text of a freeform batch, on the reused first slide and
\* on each created slide, is the first 3000 characters of the body of its
\* slide: none is longer than 3000 characters, and a body of at most 3000
\* characters is submitted as it is.
C24_BodiesCut ==
    FreeformBatchMade =>
        \A i \in 1..Len(BatchRequests) :
            LET n == BodyOf(BatchRequests[i])
                sent == Chars(BatchRequests[i].insertText.text)
                body == Chars(ExportContent[n][2])
            IN n # 0 =>
                  /\ Len(sent) <= 3000
                  /\ sent = Prefix(body, 3000)
                  /\ Len(body) <= 3000 =>
                        BatchRequests[i].insertText.text = ExportContent[n][2]

\* a freeform batch was made whose overview body (on the default slide)
\* and mission body (on a created slide) are longer than 3000 characters
\* and were cut, the intent body being cut inside its second heading, and
\* whose coordinating body, of 3000 characters, was not
C24_Witness ==
    /\ FreeformBatchMade
    /\ DefaultBodies # {}
    /\ CharLen(ExportContent[1][2]) > 3000
    /\ CharLen(ExportContent[4][2]) > 3000
    /\ CharLen(ExportContent[7][2]) = 3000
    /\ \E i \in 1..Len(BatchRequests) :
          /\ BodyOf(BatchRequests[i]) = 1
          /\ CharLen(BatchRequests[i].insertText.text) = 3000
    /\ \E i \in 1..Len(BatchRequests) :
          /\ BodyOf(BatchRequests[i]) = 5
          /\ EndsWith(BatchRequests[i].insertText.text, L("Con"))
    /\ \E i \in 1..Len(BatchRequests) :
          /\ BodyOf(BatchRequests[i]) = 7
          /\ BatchRequests[i].insertText.text = ExportContent[7][2]

(***************************************************************************)
(* Claims about the context of an enrichment batch (SpecEnrich)            *)
(***************************************************************************)
\* the value of a source key, or the substitute when the key is absent or
\* its value empty
OrMissing(fd, k, substitute) ==
    IF Has(fd, k) /\ fd[k] # << >> THEN fd[k] ELSE substitute

\* the context string the claim describes
ContextOf(fd) ==
    L("Operation: ") \o OrMissing(fd, "operation_name", L("TBD")) \o L(". ")
    \o L("Mission: ") \o OrMissing(fd, "mission", L("TBD")) \o L(". ")
    \o L("Insert method: ") \o OrMissing(fd, "insert_method", L("TBD")) \o L(". ")
    \o L("DZ/LZ: ") \o OrMissing(fd, "dz_lz", L("TBD")) \o L(". ")
    \o L("Enemy: ") \o OrMissing(fd, "enemy_composition", L("unknown")) \o L(".")

\* C25: generate_full_opord builds the context once, from the input
\* mapping, as "Operation: X. Mission: Y. Insert method: Z. DZ/LZ: W.
\* Enemy: V.", and sends it with every request of the batch; a source
\* value that is missing (key absent, or value empty) is replaced by "TBD"
\* ("unknown" for the enemy).
C25_ContextSubstitutes ==
    FullOpordCalled =>
        \A j \in DOMAIN outcome.requests :
            outcome.requests[j].messages[2].content =
                CompletionRequest(SectionOf(outcome.requests[j]),
                                  ContextOf(outcome.input), None,
                                  env).messages[2].content

\* the texts a batch inserts
Inserted(requests) ==
    {requests[i].insertText.text :
        i \in {j \in 1..Len(requests) : ~IsCreate(requests[j])}}

\* C26: in freeform mode the batch inserts the title and the body of each
\* of the 9 slides, whatever placeholder elements the default slide of
\* the presentation has; the body of the overview slide is always
\* submitted.
C26_EverySlideFilled ==
    FreeformBatchMade =>
        \A n \in 1..9 :
            /\ ExportContent[n][1] \in Inserted(BatchRequests)
            /\ Cut(ExportContent[n][2], BODY_LIMIT) \in Inserted(BatchRequests)

(***************************************************************************)
(* Claims about the inbound keys of the schema (Spec)                      *)
(***************************************************************************)
\* the key k supplies the leaf at path p: posted with the mapping of the
\* last request, each non-blank value of k becomes, trimmed, the leaf's
\* value in the instance built
Supplies(k, p) ==
    \A v \in FormValues :
        Truthy(strip(v)) =>
            GetLeaf(_form_to_opord_data(Put(form_data, k, v)), p) = strip(v)

\* C27: every free-text leaf of the schema can be supplied through the
\* inbound mapping: for each leaf there is an inbound key whose non-blank
\* value, trimmed, becomes the leaf's value in the instance that
\* _form_to_opord_data builds.
C27_EveryLeafHasKey ==
    Generated => \A p \in LeafPaths : \E k \in Keys : Supplies(k, p)

\* the leaf of the entity tree that a target key of the enrichment fills
TargetLeaf(key) ==
    CASE key = "enemy_capabilities" -> "enemy.capabilities"
      [] key = "enemy_most_likely_coa" -> "enemy.most_likely_coa"
      [] key = "enemy_most_dangerous_coa" -> "enemy.most_dangerous_coa"
      [] key = "sustainment_logistics" -> "logistics"
      [] key = "sustainment_medical" -> "medical"
      [] OTHER -> key

\* the last /generate asked for AI, the client was available and every
\* call of the batch returned a text that is not blank
Enriched ==
    /\ Generated
    /\ Has(request, "use_ai") /\ request["use_ai"] = <<"on">>
    /\ ~Unavailable(env)
    /\ collab = NoFault

\* C28: through /generate with AI requested, the client available and
\* every call returning text, no target field renders its fallback (the
\* generator renders the fallback of a leaf exactly when the leaf is
\* empty): for every form, a target posted as white space included, each
\* target leaf holds the user's non-blank value, trimmed, or the text
\* generated.
C28_NoTargetFallsBack ==
    Enriched =>
        \A k \in TargetKeys :
            LET v == GetLeaf(data, TargetLeaf(k))
            IN /\ v # << >>
               /\ IF Has(request, k) /\ Truthy(strip(request[k]))
                  THEN v = strip(request[k])
                  ELSE HasGenerated(v)

(***************************************************************************)
(* Claims about the mapping generate_dict returns (SpecAlias)              *)
(***************************************************************************)
\* C29: the mapping generate_dict returns shares no mutable structure with
\* the generator's input or with the catalog: after a caller changes the
\* tasks_to_subordinates or the subordinate_units of a mapping returned,
\* generate_text and generate_dict, on the same instance or on another,
\* return what they return for the instance as constructed and the
\* catalog as defined.
C29_ReturnedMappingIsApart ==
    /\ text_out # None => Val(text_out) = generate_text(built, Catalog)
    /\ dict_out # None => Val(dict_out) = generate_dict(built, Catalog)

(***************************************************************************)
(* Claims about concurrent export calls (SpecRace)                         *)
(***************************************************************************)
Racing == DOMAIN threads = Threads

\* every call has left _get_credentials
AllReturned == Racing /\ \A p \in Threads : threads[p].pc \in {"return", "raised"}

\* the calls that wrote token.json, and what was written last
Writers == {token_json.writes[i][1] : i \in DOMAIN token_json.writes}

LastWritten == token_json.writes[Len(token_json.writes)][2]

\* a call that loaded a valid credential returns it and writes nothing
ValidNeverWrites ==
    \A p \in Threads :
        threads[p].loaded = "valid" =>
            /\ ~threads[p].wrote
            /\ p \notin Writers
            /\ threads[p].pc = "return"

\* C30 as stated: token.json is what concurrent export calls share, with
\* no lock: two calls that loaded the same expired credential both refresh
\* it and both write the file, and once they are done the file holds what
\* was written last; a call that loads a valid credential never writes.
C30_LastWriterWins ==
    Racing =>
        /\ (AllReturned /\ token_json.writes # << >>) =>
              token_json.content = Some(LastWritten)
        /\ ValidNeverWrites

\* C30 amended: once the calls are done the file begins with what was
\* written last, and is just that when one call wrote, or when what was
\* written last is no shorter than what the other call wrote; else it is
\* either just that, or that followed by the tail of what the other call
\* wrote (the other call wrote between the open and the write of the last
\* writer).  Each call writes at most once, a call that loaded an expired
\* credential writes once, and a call that loads a valid credential never
\* writes.
C30_LastWriterOverlays ==
    Racing =>
        /\ (AllReturned /\ token_json.writes # << >>) =>
              LET first == token_json.writes[1][2]
                  file == Val(token_json.content)
              IN /\ token_json.content # None
                 /\ StartsWith(file, LastWritten)
                 /\ (Len(token_json.writes) = 1 \/ Len(LastWritten) >= Len(first))
                       => file = LastWritten
                 /\ file # LastWritten =>
                       file = LastWritten
                              \o SubSeq(first, Len(LastWritten) + 1, Len(first))
        /\ Len(token_json.writes) = Cardinality(Writers)
        /\ \A p \in Threads :
              (threads[p].loaded = "expired" /\ threads[p].pc = "return") =>
                  threads[p].wrote /\ p \in Writers
        /\ ValidNeverWrites

\* both calls loaded the expired credential, both refreshed it and both
\* wrote the file, which holds what the second of them wrote
C30_Witness ==
    /\ AllReturned
    /\ \A p \in Threads : threads[p].loaded = "expired" /\ threads[p].wrote
    /\ Len(token_json.writes) = 2
    /\ Writers = Threads
    /\ token_json.content = Some(LastWritten)

====
